---- MODULE Spec2Model ----
(***************************************************************************)
(* State-machine model of the allsomojo crawl-and-sync core:               *)
(*   db.py      the catalog tables and the two upserts                     *)
(*   ghub.py    windowed repository search and the saved-repo refresh      *)
(*   gitops.py  pull / clone orchestration and the change-stat log parser  *)
(*   core.py    the stats workers and the blacklist classifier             *)
(*   cli.py     the manual review command (the only non-automatic writer)  *)
(* Timestamps are integers counted in clock ticks, TicksPerDay ticks make  *)
(* one calendar day, and day 0 is mojo_launch_date.                        *)
(***************************************************************************)
EXTENDS Integers, Sequences, FiniteSets, TLC

VARIABLES
    repos,          \* table repos: full_name -> row, for the rows that exist
    repo_queries,   \* table repo_queries: set of <<full_name, query>>
    now,            \* the wall clock (datetime.utcnow / date.today / time)
    raised,         \* exception that left the last finished operation, or "none"
    calls,          \* number of save_repo_metadata calls made per full_name
    git_ok,         \* get_repo_changes: whether the git log command exits 0
    commit_log,     \* get_repo_changes: the log output, a sequence of lines
    repo_changes,   \* get_repo_changes: the RepoChanges it returns
    chg_pc,         \* get_repo_changes: "start" before the call, "done" after
    disk,           \* per clone directory: "absent", "dir" (no .git) or "repo" (.git inside)
    git_op,         \* the orchestrator call in progress: "idle", "pull" or "clone"
    git_pc,         \* clone_new_repos: "scan" (lines 89-108), "try" (entering
                    \* _try_clone_repos), "run" (inside run_git_commands and its consumer)
    include,        \* include_blacklisted of the call in progress
    todo,           \* clone_new_repos: rows of repos_metadata not yet scanned
    cmds,           \* the commands given to run_git_commands, by directory
    cmd_state,      \* per command: "none", "queued", "running", "ok", "failed"
    yielded,        \* commands run_git_commands has yielded to its consumer
    failed_cmds,    \* _try_clone_repos: failed_cmds
    retries,        \* _try_clone_repos: retries
    attempts,       \* times each command was started in the call in progress
    par_op,         \* parse_local_repos: "idle", or "run" from the start to the joins
    q,              \* parse_local_repos: the shared queue of mirror paths
    w_pc,           \* per worker process: "none", "check", "get", "work", "exited", "crashed"
    w_repo,         \* per worker: repo_dir, the path it took from the queue
    w_in,           \* per worker: what the subprocesses and the file walk give for repo_dir
    updates,        \* update statements executed per mirror path in this call
    srch_op,        \* search_for_repos: "idle", "run", "returned" or "aborted"
    watermark,      \* search_for_repos: search_start as computed by lines 36-49
    search_start,   \* search_for_repos: search_start
    search_end,     \* search_for_repos: search_end
    qi,             \* search_for_repos: position of `query` in `queries`
    issued,         \* the query slices given to rate_limited_query, in order
    ref_op,         \* update_saved_repos: "idle" or "run"
    ref_todo,       \* update_saved_repos: repo_names not yet visited
    rl_pc,          \* rate_limited_query: "idle", "loop" (at the for statement),
                    \* "first" / "iter" (advancing the searcher, for the first time
                    \* in this turn / again), "yielded" (suspended at the yield),
                    \* "returned", "exhausted" or "raised"
    rl_try,         \* rate_limited_query: turns of `for _ in range(retries)` begun
    rl_clock,       \* time(), in seconds
    rl_left,        \* results the searcher still holds in this turn
    rl_reqs,        \* requests sent to the provider by this call
    rl_rem,         \* client.rate_limiting[0], as of the last response
    rl_reset,       \* client.rate_limiting_resettime, as of the last response
    rl_sleeps,      \* sleep(60 * 30) calls made by this call
    rl_out,         \* what this call has yielded so far, in order: for each value
                    \* the turn that yielded it and its position in the
                    \* searcher's result list
    bl_runs,        \* blacklist_repos calls that have returned
    callers,        \* per concurrent caller of save_repo / save_repo_metadata:
                    \* pc ("idle", "queried" after save_repo_query, "built" with
                    \* the statement in hand, "done" or "failed"), its record, its
                    \* query, and the last_crawled_at put in its statement
    run_op,         \* save_github_repos_metadata: "idle", "repos" (inside
                    \* search_for_repos), "code" / "code2" (before the first /
                    \* second query of search_for_code), "update" (before
                    \* update_saved_repos), "refresh" (inside it)
    start_time,     \* save_github_repos_metadata: start_time
    found           \* full_names the search passes of the run gave to save_repo

----------------------------------------------------------------------------
(* Bounds of the model. *)

MaxTime == 3        \* the clock runs over 0..MaxTime in the catalog specifications
MaxCalls == 5       \* save_repo_metadata calls per full_name
MaxCommits == 2     \* commits in the log output given to get_repo_changes
MaxDays == 45       \* date.today() is at most this many days after the launch date
MaxResults == 1     \* results one query slice returns
MaxClock == 6       \* seconds that pass in a rate_limited_query call outside its sleeps
MaxPage == 2        \* results the searcher holds for one query
MaxRuns == 2        \* blacklist_repos calls
NCallers == 2       \* processes that save at the same time

----------------------------------------------------------------------------
(* The catalog: db.py *)

Names == {"acme/hello", "acme/other"}

NULL == -1          \* SQL NULL in an integer or timestamp column
NullText == "NULL"  \* SQL NULL in a text column

Reasons == {"needs review", "not mojo code", "no code files", "not found"}

Columns ==
    {"full_name", "updated_at", "pushed_at", "stargazers_count", "license",
     "commits", "n_mojo_files", "n_python_files", "n_notebook_files",
     "lines_added_30d", "lines_deleted_30d", "files_changed_30d",
     "local_path", "first_crawled_at", "last_crawled_at", "last_pulled_at",
     "n_crawls", "blacklisted_reason", "manually_checked"}

TextColumns == {"full_name", "license", "local_path", "blacklisted_reason"}

\* Column defaults applied by an INSERT that does not give the column.
ColumnDefault(c, t) ==
    CASE c = "first_crawled_at" -> t
      [] c = "last_crawled_at" -> t
      [] c = "n_crawls" -> 1
      [] c = "manually_checked" -> FALSE
      [] c \in TextColumns -> NullText
      [] OTHER -> NULL

\* repos_table.metadata.schema as the f-string of save_repo_metadata formats
\* it: sa_meta = sa.MetaData() has schema None, and str(None) is "None".
MetadataSchema == "None"

\* The schema names the database resolves in a qualified column reference.
AttachedSchemas == {"main", "temp"}

\* The text expression set for n_crawls on conflict:
\* <schema>."repos".n_crawls + 1.  SQLite resolves the column references of
\* the whole statement, the DO UPDATE SET clause included, when it prepares
\* the statement; a reference that does not resolve fails the statement
\* ("no such column") before any row is looked at.
NCrawlsExprResolves == MetadataSchema \in AttachedSchemas

\* on_conf_set: the excluded value of every column present in data, then
\* n_crawls and last_crawled_at.
OnConflictSet(row, data, t) ==
    [c \in Columns |->
        CASE c = "n_crawls" -> row[c] + 1
          [] c = "last_crawled_at" -> t
          [] c \in DOMAIN data -> data[c]
          [] OTHER -> row[c]]

InsertRow(data, t) ==
    [c \in Columns |-> IF c \in DOMAIN data THEN data[c] ELSE ColumnDefault(c, t)]

\* The statement as it runs once prepared: the row is inserted, or on a
\* conflict on full_name updated.  built_at is the last_crawled_at put in
\* the SET clause when the statement was built, t the time it runs.
UpsertRow(tbl, data, built_at, t) ==
    LET n == data["full_name"] IN
    IF n \notin DOMAIN tbl
    THEN [m \in DOMAIN tbl \cup {n} |-> IF m = n THEN InsertRow(data, t) ELSE tbl[m]]
    ELSE [tbl EXCEPT ![n] = OnConflictSet(tbl[n], data, built_at)]

\* conn.execute(statement) inside engine.begin(): the new table and the
\* exception raised.  A statement that fails is rolled back.
ExecuteUpsert(tbl, data, built_at, t) ==
    IF NCrawlsExprResolves
    THEN [repos |-> UpsertRow(tbl, data, built_at, t), exc |-> "none"]
    ELSE [repos |-> tbl, exc |-> "OperationalError"]

\* INSERT ... ON CONFLICT (full_name) DO UPDATE SET ..., built and run in
\* one call at time t.
save_repo_metadata(tbl, data, t) == ExecuteUpsert(tbl, data, t, t)

\* An insert whose conflict target is full_name alone.
SaveRepoQueryKeyedByName(rq, full_name, query) ==
    IF \E pair \in rq : pair[1] = full_name THEN rq
    ELSE rq \cup {<<full_name, query>>}

\* INSERT ... ON CONFLICT DO NOTHING on (full_name, query).
save_repo_query(rq, full_name, query) == rq \cup {<<full_name, query>>}

\* The records the provider can return for a repository at time t
\* (extract_repo_metadata): timestamps not after t, and license in the
\* record only when the repository has one.
Licenses == {"MIT"}
Stars == {0, 1}
FetchedRecords(n, t) ==
    LET base == [full_name : {n}, updated_at : {0, t}, pushed_at : {0, t},
                 stargazers_count : Stars]
        with == [full_name : {n}, updated_at : {0, t}, pushed_at : {0, t},
                 stargazers_count : Stars, license : Licenses]
    IN base \cup with

----------------------------------------------------------------------------
(* The change-stat log parser: gitops.py get_repo_changes *)

\* One line of `git log --stat` output, by what the parser looks at:
\*   k     "commit"  the line matches  commit [a-z0-9]{40}
\*         "blank"   the line is empty after strip()
\*         "summary" the line matches  N files? changed[, A insertions?(+)][, D deletions?(-)]
\*         "text"    anything else
\*   left  the text left of the first "|", NullText when the line has no "|"
\*   ins, del  the numbers of the summary clauses, NULL for a missing clause
Ln(k, left, ins, del) == [k |-> k, left |-> left, ins |-> ins, del |-> del]

CommitLine == Ln("commit", NullText, NULL, NULL)
BlankLine == Ln("blank", NullText, NULL, NULL)
TextLine == Ln("text", NullText, NULL, NULL)
BarTextLine == Ln("text", "see a", NULL, NULL)
FileLine(path) == Ln("text", path, NULL, NULL)
SummaryLine(ins, del) == Ln("summary", NullText, ins, del)

\* The commits a log can hold: a message whose last paragraph is one line
\* that may hold a "|", followed or not by one more line; the per-file lines
\* of the stat; and the summary clauses.  A commit without a stat (a merge,
\* an empty commit) has no file lines and no summary line.
FileLists == {<<"a.mojo">>, <<"b.py">>, <<"a.mojo", "b.py">>}
InsCounts == {NULL, 5, 10}
DelCounts == {NULL, 2}
LogCommits ==
    [bar : BOOLEAN, more : BOOLEAN, stat : {TRUE}, files : FileLists,
     ins : InsCounts, del : DelCounts]
    \cup [bar : BOOLEAN, more : BOOLEAN, stat : {FALSE}, files : {<<>>},
          ins : {NULL}, del : {NULL}]

\* git's rendering of one commit: header, blank, message, blank, stat, blank.
RenderCommit(c) ==
    <<CommitLine, TextLine, BlankLine, IF c.bar THEN BarTextLine ELSE TextLine>>
    \o (IF c.more THEN <<TextLine>> ELSE <<>>)
    \o (IF c.stat
        THEN <<BlankLine>> \o [i \in 1..Len(c.files) |-> FileLine(c.files[i])]
             \o <<SummaryLine(c.ins, c.del)>>
        ELSE <<>>)
    \o <<BlankLine>>

RECURSIVE RenderLog(_)
RenderLog(cs) ==
    IF cs = <<>> THEN <<>> ELSE RenderCommit(Head(cs)) \o RenderLog(Tail(cs))

RECURSIVE SeqsUpTo(_, _)
SeqsUpTo(S, n) ==
    IF n = 0 THEN {<<>>}
    ELSE LET shorter == SeqsUpTo(S, n - 1) IN
         shorter \cup {<<x>> \o r : x \in S, r \in {u \in shorter : Len(u) = n - 1}}

\* RepoChanges()
ZeroChanges == [lines_added |-> 0, lines_deleted |-> 0, files_changed |-> {}]

\* matches: the positions of the commit markers.
Matches(log) == {i \in 1..Len(log) : log[i].k = "commit"}

\* commits: the text from each marker up to the next one (or the end), strip()ped.
RECURSIVE StripEnd(_)
StripEnd(ls) ==
    IF ls # <<>> /\ ls[Len(ls)].k = "blank"
    THEN StripEnd(SubSeq(ls, 1, Len(ls) - 1))
    ELSE ls

CommitSegment(log, i) ==
    LET later == {j \in Matches(log) : j > i}
        stop == IF later = {} THEN Len(log)
                ELSE (CHOOSE j \in later : \A h \in later : j <= h) - 1
    IN StripEnd(SubSeq(log, i, stop))

\* int(match.group(g) or 0)
GroupOrZero(g) == IF g = NULL THEN 0 ELSE g

\* for line in reversed(lines): stop at the first empty line, add the text
\* left of "|" of every line that holds a "|".
RECURSIVE FilesAbove(_)
FilesAbove(ls) ==
    IF ls = <<>> \/ ls[Len(ls)].k = "blank" THEN {}
    ELSE (IF ls[Len(ls)].left # NullText THEN {ls[Len(ls)].left} ELSE {})
         \cup FilesAbove(SubSeq(ls, 1, Len(ls) - 1))

\* The body of `for commit in commits`.
ParseCommit(rc, lines) ==
    LET last == lines[Len(lines)]
        rest == SubSeq(lines, 1, Len(lines) - 1)
        rc1 == IF last.k = "summary"
               THEN [rc EXCEPT !.lines_added = GroupOrZero(last.ins),
                               !.lines_deleted = GroupOrZero(last.del)]
               ELSE rc
    IN [rc1 EXCEPT !.files_changed = @ \cup FilesAbove(rest)]

RECURSIVE ParseFrom(_, _, _)
ParseFrom(rc, log, i) ==
    IF i > Len(log) THEN rc
    ELSE IF i \in Matches(log)
         THEN ParseFrom(ParseCommit(rc, CommitSegment(log, i)), log, i + 1)
         ELSE ParseFrom(rc, log, i + 1)

\* get_repo_changes: ok is whether the git command exits 0 (ErrorReturnCode
\* is caught and the empty RepoChanges returned).
get_repo_changes(ok, log) ==
    IF ~ok THEN ZeroChanges
    ELSE IF Matches(log) = {} THEN ZeroChanges
    ELSE ParseFrom(ZeroChanges, log, 1)

----------------------------------------------------------------------------
(* The git sync orchestrator: gitops.py, files.py *)

\* config.repos_base_dir.joinpath(full_name), resolved, as a string; it is
\* also user_dir / Path(clone_url).stem of the clone command.
LocalPath(n) == "/repos/" \o n
Paths == {LocalPath(n) : n \in Names}

\* full_name = f"{clone_dir.parent.name}/{clone_dir.name}"
FullNameOf(p) == CHOOSE n \in Names : LocalPath(n) = p

\* config.max_git_io as configured (a positive integer, 8 when not set).
max_git_io == 1

\* clone_new_repos(include_blacklisted, retries = 2)
DefaultRetries == 2

\* last_pulled_at IS NULL OR last_pulled_at < pushed_at
PullWhere(row) ==
    \/ row["last_pulled_at"] = NULL
    \/ /\ row["pushed_at"] # NULL
       /\ row["last_pulled_at"] < row["pushed_at"]

NoWhere(row) == TRUE

\* A selection that does not look at blacklisted_reason.
LocalRepoPathsWithBlacklisted(tbl, include_blacklisted, where_conditions) ==
    {tbl[n]["local_path"] : n \in
        {m \in DOMAIN tbl :
            /\ tbl[m]["local_path"] # NullText
            /\ tbl[m] \in where_conditions}}

\* files.py local_repo_paths: the set of local_path values selected;
\* where_conditions is given as the rows it holds for.
local_repo_paths(tbl, include_blacklisted, where_conditions) ==
    {tbl[n]["local_path"] : n \in
        {m \in DOMAIN tbl :
            /\ tbl[m]["local_path"] # NullText
            /\ include_blacklisted \/ tbl[m]["blacklisted_reason"] = NullText
            /\ tbl[m] \in where_conditions}}

\* The rows of tbl.
Rows(tbl) == {tbl[n] : n \in DOMAIN tbl}

\* The pull commands of git_pull_local_repos, by cwd.
PullCandidates(tbl, include_blacklisted) ==
    local_repo_paths(tbl, include_blacklisted, {row \in Rows(tbl) : PullWhere(row)})

\* repos_metadata of clone_new_repos (lines 76-84), by full_name.
CloneCandidates(tbl, include_blacklisted) ==
    {n \in DOMAIN tbl :
        /\ tbl[n]["local_path"] = NullText
        /\ include_blacklisted \/ tbl[n]["blacklisted_reason"] = NullText}

\* UPDATE repos SET last_pulled_at = t WHERE local_path = cwd
SetLastPulledAt(tbl, cwd, t) ==
    [n \in DOMAIN tbl |->
        IF tbl[n]["local_path"] = cwd
        THEN [tbl[n] EXCEPT !["last_pulled_at"] = t]
        ELSE tbl[n]]

\* The two assertions of _update_local_repo_paths.
IsGitRepoNoGitCheck(d) == d # "absent"

IsGitRepo(d) == d = "repo"

\* UPDATE repos SET local_path = str(local_path.resolve()) WHERE full_name = n
SetLocalPath(tbl, n, path) ==
    [m \in DOMAIN tbl |->
        IF m = n THEN [tbl[m] EXCEPT !["local_path"] = path] ELSE tbl[m]]

\* A pool with a thread for every command.
NWorkersUnbounded(commands) == Cardinality(commands)

\* n_workers = min(n_commands, config.max_git_io)
NWorkers(commands) ==
    IF Cardinality(commands) < max_git_io THEN Cardinality(commands) ELSE max_git_io

Finished(st) == st \in {"ok", "failed"}

\* if retries >= 0 (after retries -= 1): the failed commands are run again.
RetryAgainOffByOne(r) == r >= -1

RetryAgain(r) == r >= 0

----------------------------------------------------------------------------
(* The stats workers: core.py parse_local_repos, gitops.py total_commits *)

\* config.max_process as configured (at least 1).
max_process == 2
Workers == 1..max_process

\* What one mirror gives a worker: whether `git log --stat` exits 0 and its
\* output, whether the `git log --oneline` of total_commits exits 0 and the
\* count, and the numbers of files find_code_files returns.
SampleLogs ==
    {<<>>,
     RenderLog(<<[bar |-> FALSE, more |-> FALSE, stat |-> TRUE,
                  files |-> <<"a.mojo", "b.py">>, ins |-> 10, del |-> 2],
                 [bar |-> FALSE, more |-> FALSE, stat |-> TRUE,
                  files |-> <<"a.mojo">>, ins |-> 5, del |-> NULL]>>)}
FileCounts == {<<1, 0, 0>>, <<0, 1, 1>>, <<0, 0, 0>>}
MirrorInputs ==
    [log_ok : BOOLEAN, log : SampleLogs, commits_ok : BOOLEAN, n_commits : {2},
     files : FileCounts]
NoInput ==
    [log_ok |-> TRUE, log |-> <<>>, commits_ok |-> TRUE, n_commits |-> 2,
     files |-> <<0, 0, 0>>]

\* The values of the update statement of the worker (lines 60-73).
StatsValues(in) ==
    LET commit_stats == get_repo_changes(in.log_ok, in.log) IN
    [commits |-> in.n_commits,
     n_mojo_files |-> in.files[1],
     n_python_files |-> in.files[2],
     n_notebook_files |-> in.files[3],
     lines_added_30d |-> commit_stats.lines_added,
     lines_deleted_30d |-> commit_stats.lines_deleted,
     files_changed_30d |-> Cardinality(commit_stats.files_changed)]

\* UPDATE repos SET ... WHERE local_path = str(repo_dir)
SetStats(tbl, repo_dir, vals) ==
    [n \in DOMAIN tbl |->
        IF tbl[n]["local_path"] = repo_dir
        THEN [c \in Columns |-> IF c \in DOMAIN vals THEN vals[c] ELSE tbl[n][c]]
        ELSE tbl[n]]

\* The orders in which the set local_repo_paths returns can be iterated.
RECURSIVE Orders(_)
Orders(S) ==
    IF S = {} THEN {<<>>}
    ELSE UNION {{<<x>> \o r : r \in Orders(S \ {x})} : x \in S}

----------------------------------------------------------------------------
(* The windowed search: ghub.py search_for_repos *)

TicksPerDay == 2

\* datetime.date() / date.today(): the calendar day of a timestamp.
DateOf(t) == t \div TicksPerDay

\* mojo_launch_date.date()
LaunchDay == 0

\* timedelta(days=3), the backoff of line 49
BackoffDays == 3

\* dt = timedelta(days=20)
WindowDays == 20

\* sa.func.max(repos_table.c.updated_at): NULL for no row.
MaxUpdatedAt(tbl) ==
    LET vals == {tbl[n]["updated_at"] : n \in DOMAIN tbl} \ {NULL} IN
    IF vals = {} THEN NULL ELSE CHOOSE v \in vals : \A u \in vals : u <= v

\* Lines 36-49.
SearchStartDay(tbl, start_from_last_crawl) ==
    LET last == IF start_from_last_crawl THEN MaxUpdatedAt(tbl) ELSE NULL IN
    IF last = NULL THEN LaunchDay ELSE DateOf(last) - BackoffDays

\* Lines 50-55: the two search terms, then each with fork:true and
\* fork:false.
BaseQueries == <<[flame |-> TRUE, fork |-> "unset"], [flame |-> FALSE, fork |-> "unset"]>>
Queries ==
    BaseQueries
    \o [i \in 1..(2 * Len(BaseQueries)) |->
          [BaseQueries[(i + 1) \div 2] EXCEPT !.fork = IF i % 2 = 1 THEN "true" ELSE "false"]]

\* A window end that is not held back by search_end.
MinUnclamped(a, b) == b

Min(a, b) == IF a < b THEN a ELSE b

\* query_slice = f"{query} created:{start}..{end}"
QuerySlice(query, start, end) == [query |-> query, start |-> start, end |-> end]

\* The calendar days a slice selects: the provider's range qualifier
\* created:A..B matches the dates from A to B, both included.
SliceDays(sl) == sl.start..sl.end

\* save_repo: the provenance pair in one transaction, the metadata upsert in
\* the next; an exception of the second leaves the first committed.
save_repo(tbl, rq, data, query, t) ==
    LET r == save_repo_metadata(tbl, data, t) IN
    [repos |-> r.repos,
     repo_queries |-> save_repo_query(rq, data["full_name"], query),
     exc |-> r.exc]

\* The loop of lines 72-85 over the results of one slice: save_repo for each
\* result until one raises.
RECURSIVE SaveResults(_, _, _, _, _)
SaveResults(tbl, rq, results, query, t) ==
    IF results = <<>> THEN [repos |-> tbl, repo_queries |-> rq, exc |-> "none"]
    ELSE LET r == save_repo(tbl, rq, Head(results), query, t) IN
         IF r.exc # "none" THEN r
         ELSE SaveResults(r.repos, r.repo_queries, Tail(results), query, t)

\* The records a search returns at time t.
SearchRecords(t) ==
    UNION {{d \in FetchedRecords(n, t) :
               d["updated_at"] = t /\ d["pushed_at"] = t /\ d["stargazers_count"] = 0}
           : n \in Names}

----------------------------------------------------------------------------
(* The rate-limited query: ghub.py rate_limited_query *)

\* rate_limited_query(client, query, searcher, retries = 2, **kwargs)
QueryRetries == 2

\* sleep(60 * 30)
BackoffSeconds == 1800

\* The margin of line 172.
MarginSeconds == 1

\* How far ahead of a response its reset time lies, in seconds.
ResetAhead == {1, 5}

\* The exceptions a request can raise: RateLimitExceededException, a
\* GithubException with the secondary-rate-limit message, any other
\* GithubException.
ProviderErrors == {"RateLimitExceeded", "SecondaryRateLimit", "GithubException"}

\* The except clauses of lines 181-197 that sleep and go on with the loop.
IsThrottle(err) == err \in {"RateLimitExceeded", "SecondaryRateLimit"}

\* A sleep time that leaves out the margin.
SleepTimeNoMargin(reset, t) == reset - t

\* sleep_t = client.rate_limiting_resettime - time() + 1
SleepTime(reset, t) == reset - t + MarginSeconds

\* A loop that takes one turn more than range(retries).
MoreTurnsOneTooMany(n) == n <= QueryRetries

\* for _ in range(retries): another turn is taken after n turns.
MoreTurns(n) == n < QueryRetries

----------------------------------------------------------------------------
(* The saved-repo refresh: ghub.py update_saved_repos *)

\* repo_names (lines 120-126); last_crawled_before = NULL stands for None.
RefreshNames(tbl, include_blacklisted, last_crawled_before) ==
    {n \in DOMAIN tbl :
        /\ include_blacklisted \/ tbl[n]["blacklisted_reason"] = NullText
        /\ last_crawled_before = NULL
             \/ tbl[n]["last_crawled_at"] < last_crawled_before}

\* UPDATE repos SET blacklisted_reason = 'not found' WHERE full_name = n
SetNotFound(tbl, n) ==
    [m \in DOMAIN tbl |->
        IF m = n THEN [tbl[m] EXCEPT !["blacklisted_reason"] = "not found"] ELSE tbl[m]]

----------------------------------------------------------------------------
(* The classifier: core.py blacklist_repos *)

\* UPDATE repos SET blacklisted_reason = reason WHERE ..., the where clause
\* given as the rows it holds for.
SetReasonWhere(tbl, where_rows, reason) ==
    [n \in DOMAIN tbl |->
        IF tbl[n] \in where_rows THEN [tbl[n] EXCEPT !["blacklisted_reason"] = reason]
        ELSE tbl[n]]

\* A first statement that takes the rows flagged for review.
NoCodeFilesWhereFlagged(row) ==
    /\ row["n_python_files"] = 0
    /\ row["n_mojo_files"] = 0
    /\ row["n_notebook_files"] = 0
    /\ row["blacklisted_reason"] = "needs review"
    /\ row["local_path"] # NullText
    /\ row["manually_checked"] = FALSE

\* Lines 99-106.
NoCodeFilesWhere(row) ==
    /\ row["n_python_files"] = 0
    /\ row["n_mojo_files"] = 0
    /\ row["n_notebook_files"] = 0
    /\ row["blacklisted_reason"] = NullText
    /\ row["local_path"] # NullText
    /\ row["manually_checked"] = FALSE

\* A second statement that does not look at n_mojo_files.
WhitelistWhereAnyCount(row) ==
    /\ row["blacklisted_reason"] # NullText
    /\ row["manually_checked"] = FALSE

\* Lines 116-120.
WhitelistWhere(row) ==
    /\ row["n_mojo_files"] > 0
    /\ row["blacklisted_reason"] # NullText
    /\ row["manually_checked"] = FALSE

\* A third statement that does not look at manually_checked.
NeedsReviewWhereNoManualCheck(row) ==
    /\ row["n_mojo_files"] = 0
    /\ row["blacklisted_reason"] = NullText

\* A third statement that does not look at blacklisted_reason.
NeedsReviewWhereAnyReason(row) ==
    /\ row["n_mojo_files"] = 0
    /\ row["manually_checked"] = FALSE

\* Lines 132-136.
NeedsReviewWhere(row) ==
    /\ row["n_mojo_files"] = 0
    /\ row["manually_checked"] = FALSE
    /\ row["blacklisted_reason"] = NullText

\* The where clause and the value of the k-th update statement.
RuleWhere(k, row) ==
    CASE k = 1 -> NoCodeFilesWhere(row)
      [] k = 2 -> WhitelistWhere(row)
      [] k = 3 -> NeedsReviewWhere(row)

RuleReason(k) ==
    CASE k = 1 -> "no code files"
      [] k = 2 -> NullText
      [] k = 3 -> "needs review"

\* The k-th update statement alone.
ApplyRule(tbl, k) ==
    SetReasonWhere(tbl, {row \in Rows(tbl) : RuleWhere(k, row)}, RuleReason(k))

\* The three update statements in the order given.
ApplyRules(tbl, order) ==
    ApplyRule(ApplyRule(ApplyRule(tbl, order[1]), order[2]), order[3])

\* The three update statements, in the order of the code.
blacklist_repos(tbl) ==
    LET t1 == SetReasonWhere(tbl, {row \in Rows(tbl) : NoCodeFilesWhere(row)},
                             "no code files")
        t2 == SetReasonWhere(t1, {row \in Rows(t1) : WhitelistWhere(row)}, NullText)
    IN SetReasonWhere(t2, {row \in Rows(t2) : NeedsReviewWhere(row)}, "needs review")

----------------------------------------------------------------------------
(* The manual review: cli.py review *)

\* local_paths of the rows with blacklisted_reason = 'needs review'.
ReviewPaths(tbl) ==
    {tbl[n]["local_path"] : n \in {m \in DOMAIN tbl :
                                      tbl[m]["blacklisted_reason"] = "needs review"}}

\* UPDATE repos SET blacklisted_reason = ..., manually_checked = true
\* WHERE local_path = local_path (IS NULL for a row without local_path).
SetReview(tbl, local_path, is_mojo) ==
    [n \in DOMAIN tbl |->
        IF tbl[n]["local_path"] = local_path
        THEN [tbl[n] EXCEPT !["blacklisted_reason"] =
                                IF is_mojo THEN NullText ELSE "not mojo code",
                            !["manually_checked"] = TRUE]
        ELSE tbl[n]]

----------------------------------------------------------------------------
(* Variable groups *)

catVars == <<repos, repo_queries, now, raised, calls>>
chgVars == <<git_ok, commit_log, repo_changes, chg_pc>>
runVars == <<cmds, cmd_state, yielded, attempts>>
gitVars == <<disk, git_op, git_pc, include, todo, runVars, failed_cmds, retries>>
parVars == <<par_op, q, w_pc, w_repo, w_in, updates>>
srchVars == <<srch_op, watermark, search_start, search_end, qi, issued>>
refVars == <<ref_op, ref_todo>>
rlVars == <<rl_pc, rl_try, rl_clock, rl_left, rl_reqs, rl_rem, rl_reset, rl_sleeps,
           rl_out>>
clsVars == <<bl_runs>>
conVars == <<callers>>
sgmVars == <<run_op, start_time, found>>
vars == <<catVars, chgVars, gitVars, parVars, srchVars, refVars, rlVars, clsVars,
          conVars, sgmVars>>

\* What the actions of one component leave alone.
notCatalog == <<sgmVars, clsVars, conVars, chgVars, gitVars, parVars, srchVars, refVars, rlVars>>
notChanges == <<sgmVars, clsVars, conVars, catVars, gitVars, parVars, srchVars, refVars, rlVars>>
notGit == <<sgmVars, clsVars, conVars, chgVars, parVars, srchVars, refVars, rlVars, repo_queries, calls>>
notParse == <<sgmVars, clsVars, conVars, chgVars, gitVars, srchVars, refVars, rlVars, repo_queries, calls, now>>
notSearch == <<clsVars, conVars, chgVars, gitVars, parVars, refVars, rlVars, calls, now>>
notRefresh == <<clsVars, conVars, chgVars, gitVars, parVars, srchVars, rlVars, repo_queries, calls>>
notQuery == <<sgmVars, clsVars, conVars, chgVars, gitVars, parVars, srchVars, refVars, repos,
             repo_queries, now, calls>>
notCallers == <<sgmVars, clsVars, chgVars, gitVars, parVars, srchVars, refVars, rlVars, now>>

\* The operations are called one after the other: an operation starts when
\* no other is in progress.
Quiet ==
    /\ git_op = "idle"
    /\ par_op = "idle"
    /\ srch_op = "idle"
    /\ ref_op = "idle"

----------------------------------------------------------------------------
(* The components at rest *)

IdleChanges ==
    /\ git_ok = TRUE
    /\ commit_log = <<>>
    /\ repo_changes = ZeroChanges
    /\ chg_pc = "done"

NoDisk == disk = [p \in Paths |-> "absent"]

IdleGit ==
    /\ git_op = "idle"
    /\ git_pc = "run"
    /\ include = FALSE
    /\ todo = {}
    /\ cmds = {}
    /\ cmd_state = [p \in Paths |-> "none"]
    /\ yielded = {}
    /\ failed_cmds = {}
    /\ retries = 0
    /\ attempts = [p \in Paths |-> 0]

IdleParse ==
    /\ par_op = "idle"
    /\ q = <<>>
    /\ w_pc = [w \in Workers |-> "none"]
    /\ w_repo = [w \in Workers |-> NullText]
    /\ w_in = [w \in Workers |-> NoInput]
    /\ updates = [p \in Paths |-> 0]

IdleRefresh ==
    /\ ref_op = "idle"
    /\ ref_todo = {}

IdleClassifier == bl_runs = 0

\* No process is inside save_repo or save_repo_metadata.
Callers == 1..NCallers
NoRecord == [full_name |-> NullText]
NoQuery == [flame |-> FALSE, fork |-> "none"]
NoCall == [pc |-> "idle", data |-> NoRecord, query |-> NoQuery, built_at |-> NULL]
IdleCallers == callers = [c \in Callers |-> NoCall]

\* No save_github_repos_metadata call is in progress.
IdleRun ==
    /\ run_op = "idle"
    /\ start_time = 0
    /\ found = {}

IdleQuery ==
    /\ rl_pc = "idle"
    /\ rl_try = 0
    /\ rl_clock = 0
    /\ rl_left = 0
    /\ rl_reqs = 0
    /\ rl_rem = 1
    /\ rl_reset = 0
    /\ rl_sleeps = 0
    /\ rl_out = <<>>

IdleSearch ==
    /\ srch_op = "idle"
    /\ watermark = LaunchDay
    /\ search_start = LaunchDay
    /\ search_end = LaunchDay
    /\ qi = 1
    /\ issued = <<>>

----------------------------------------------------------------------------
(* Actions of the catalog upserter *)

Tick ==
    /\ now < MaxTime
    /\ now' = now + 1
    /\ UNCHANGED <<repos, repo_queries, raised, calls, notCatalog>>

SaveRepoMetadata(data) ==
    LET r == save_repo_metadata(repos, data, now)
        n == data["full_name"] IN
    /\ calls[n] < MaxCalls
    /\ repos' = r.repos
    /\ raised' = r.exc
    /\ calls' = [calls EXCEPT ![n] = @ + 1]
    /\ UNCHANGED <<repo_queries, now, notCatalog>>

InitCatalog ==
    /\ repos = <<>>
    /\ repo_queries = {}
    /\ now = 0
    /\ raised = "none"
    /\ calls = [n \in Names |-> 0]

\* The database file outlives the process: update_db starts on the catalog
\* the file holds, none or the row of a repository saved before.
StoredCatalogs ==
    {<<>>,
     [n \in {"acme/hello"} |->
         InsertRow([full_name |-> n, updated_at |-> 0, pushed_at |-> 0,
                    stargazers_count |-> 0], 0)]}

----------------------------------------------------------------------------
(* Concurrent callers of save_repo and save_repo_metadata.  Each transaction
   (engine.begin() with one statement) is one step; the statement of
   save_repo_metadata is built, with its last_crawled_at, before its
   transaction begins. *)

\* The records and queries the callers save: the callers save one
\* repository, with or without its license in the record.
CallerRecords == {d \in SearchRecords(0) : d["full_name"] = "acme/hello"}
CallerQueries == {Queries[1], Queries[2]}

\* save_repo, lines 203-204: extract_repo_metadata, then save_repo_query in
\* its own transaction.
CallerSaveRepoQuery(c, data, query) ==
    /\ callers[c].pc = "idle"
    /\ repo_queries' = save_repo_query(repo_queries, data["full_name"], query)
    /\ callers' = [callers EXCEPT ![c] = [pc |-> "queried", data |-> data,
                                          query |-> query, built_at |-> NULL]]
    /\ UNCHANGED <<repos, raised, calls, notCallers>>

\* save_repo_metadata, lines 148-157, called by save_repo (line 205) or on
\* its own (update_saved_repos): the statement is built.
CallerBuild(c, data) ==
    /\ \/ callers[c].pc = "queried" /\ data = callers[c].data
       \/ callers[c].pc = "idle"
    /\ callers' = [callers EXCEPT ![c] = [pc |-> "built", data |-> data,
                                          query |-> callers[c].query,
                                          built_at |-> now]]
    /\ UNCHANGED <<repos, repo_queries, raised, calls, notCallers>>

\* save_repo_metadata, lines 159-160: the transaction.
CallerExecute(c) ==
    LET data == callers[c].data
        n == data["full_name"]
        r == ExecuteUpsert(repos, data, callers[c].built_at, now) IN
    /\ callers[c].pc = "built"
    /\ repos' = r.repos
    /\ raised' = r.exc
    /\ calls' = [calls EXCEPT ![n] = @ + 1]
    /\ callers' = [callers EXCEPT ![c].pc = IF r.exc = "none" THEN "done" ELSE "failed"]
    /\ UNCHANGED <<repo_queries, notCallers>>

InitCallers ==
    /\ repos \in StoredCatalogs
    /\ repo_queries = {}
    /\ now = 0
    /\ raised = "none"
    /\ calls = [n \in Names |-> IF n \in DOMAIN repos THEN repos[n]["n_crawls"] ELSE 0]
    /\ IdleChanges
    /\ NoDisk
    /\ IdleGit
    /\ IdleParse
    /\ IdleSearch
    /\ IdleRefresh
    /\ IdleClassifier
    /\ IdleCallers
    /\ IdleQuery
    /\ IdleRun

----------------------------------------------------------------------------
(* Actions of the change-stat extractor *)

\* The inputs: every log of up to MaxCommits commits, and a failing command.
InitChanges ==
    /\ git_ok \in BOOLEAN
    /\ commit_log \in {RenderLog(cs) : cs \in SeqsUpTo(LogCommits, MaxCommits)}
    /\ repo_changes = ZeroChanges
    /\ chg_pc = "start"

GetRepoChanges ==
    /\ chg_pc = "start"
    /\ repo_changes' = get_repo_changes(git_ok, commit_log)
    /\ chg_pc' = "done"
    /\ UNCHANGED <<git_ok, commit_log, notChanges>>

----------------------------------------------------------------------------
(* Actions of the git sync orchestrator *)

\* run_git_commands is entered with `commands`: every command is submitted.
\* The first batch of a call starts from no results (old = FALSE); a retry
\* batch leaves the results of the commands it does not hold (old = TRUE).
Submit(commands, old) ==
    /\ cmds' = commands
    /\ cmd_state' = [p \in Paths |->
                        IF p \in commands THEN "queued"
                        ELSE IF old THEN cmd_state[p] ELSE "none"]
    /\ yielded' = {}

\* The call has returned: its locals and the pool are gone.
DropGitLocals ==
    /\ git_pc' = "run"
    /\ include' = FALSE
    /\ todo' = {}
    /\ cmds' = {}
    /\ cmd_state' = [p \in Paths |-> "none"]
    /\ yielded' = {}
    /\ failed_cmds' = {}
    /\ retries' = 0
    /\ attempts' = [p \in Paths |-> 0]

\* git_pull_local_repos, lines 30-49: the candidates are selected; with
\* none the call returns at once and changes nothing.
PullStart(include_blacklisted) ==
    /\ Quiet
    /\ PullCandidates(repos, include_blacklisted) # {}
    /\ git_op' = "pull"
    /\ git_pc' = "run"
    /\ include' = include_blacklisted
    /\ Submit(PullCandidates(repos, include_blacklisted), FALSE)
    /\ attempts' = [p \in Paths |-> 0]
    /\ raised' = "none"
    /\ UNCHANGED <<repos, now, disk, todo, failed_cmds, retries, notGit>>

\* A pool thread takes a submitted command: _run_command starts.
GitBegin(p) ==
    /\ git_op \in {"pull", "clone"}
    /\ git_pc = "run"
    /\ cmd_state[p] = "queued"
    /\ Cardinality({r \in cmds : cmd_state[r] = "running"}) < NWorkers(cmds)
    /\ cmd_state' = [cmd_state EXCEPT ![p] = "running"]
    /\ attempts' = [attempts EXCEPT ![p] = @ + 1]
    /\ UNCHANGED <<repos, now, raised, disk, git_op, git_pc, include, todo, cmds,
                   yielded, failed_cmds, retries, notGit>>

\* _run_command of a pull ends: the command returned, or TimeoutException /
\* ErrorReturnCode was caught and logged.
PullEnd(p, ok) ==
    /\ git_op = "pull"
    /\ cmd_state[p] = "running"
    /\ cmd_state' = [cmd_state EXCEPT ![p] = IF ok THEN "ok" ELSE "failed"]
    /\ UNCHANGED <<repos, now, raised, disk, git_op, git_pc, include, todo, cmds,
                   yielded, attempts, failed_cmds, retries, notGit>>

\* One turn of the consumer loop of git_pull_local_repos (lines 50-57):
\* the pool has shut down, as_completed yields a command in any order.
PullRecord(p) ==
    /\ git_op = "pull"
    /\ \A r \in cmds : Finished(cmd_state[r])
    /\ p \in cmds \ yielded
    /\ yielded' = yielded \cup {p}
    /\ repos' = SetLastPulledAt(repos, p, now)
    /\ UNCHANGED <<now, raised, disk, git_op, git_pc, include, todo, cmds, cmd_state,
                   attempts, failed_cmds, retries, notGit>>

\* The generator is exhausted: git_pull_local_repos returns.
PullReturn ==
    /\ git_op = "pull"
    /\ \A r \in cmds : Finished(cmd_state[r])
    /\ yielded = cmds
    /\ git_op' = "idle"
    /\ DropGitLocals
    /\ UNCHANGED <<repos, now, raised, disk, notGit>>

\* Catalogs git_pull_local_repos can be called on: every row with a
\* local_path has a working copy on disk.
PullRows(n) ==
    {[InsertRow([full_name |-> n, updated_at |-> 0, pushed_at |-> pa,
                 stargazers_count |-> 0], 0)
        EXCEPT !["local_path"] = lp, !["last_pulled_at"] = pl,
               !["blacklisted_reason"] = br] :
        pa \in {0, 1}, lp \in {NullText, LocalPath(n)}, pl \in {NULL, 0},
        br \in {NullText, "needs review"}}

InitPull ==
    /\ repos \in {t \in [Names -> UNION {PullRows(n) : n \in Names}] :
                    \A n \in Names :
                        /\ t[n] \in PullRows(n)
                        /\ t[n]["last_pulled_at"] # NULL => t[n]["local_path"] # NullText}
    /\ repo_queries = {}
    /\ now = 1
    /\ raised = "none"
    /\ calls = [n \in Names |-> 1]
    /\ disk = [p \in Paths |->
                 IF repos[FullNameOf(p)]["local_path"] = p THEN "repo" ELSE "absent"]
    /\ IdleChanges
    /\ IdleGit
    /\ IdleParse
    /\ IdleSearch
    /\ IdleRefresh
    /\ IdleClassifier
    /\ IdleCallers
    /\ IdleQuery
    /\ IdleRun

\* clone_new_repos, lines 76-87: the candidates are selected; with none the
\* call returns at once and changes nothing.
CloneStart(include_blacklisted) ==
    /\ Quiet
    /\ CloneCandidates(repos, include_blacklisted) # {}
    /\ git_op' = "clone"
    /\ git_pc' = "scan"
    /\ include' = include_blacklisted
    /\ todo' = CloneCandidates(repos, include_blacklisted)
    /\ Submit({}, FALSE)
    /\ failed_cmds' = {}
    /\ retries' = DefaultRetries
    /\ attempts' = [p \in Paths |-> 0]
    /\ raised' = "none"
    /\ UNCHANGED <<repos, now, disk, notGit>>

\* A scan loop that makes a clone command for every row.
CloneScanAlwaysClones(n) ==
    /\ git_op = "clone"
    /\ git_pc = "scan"
    /\ n \in todo
    /\ todo' = todo \ {n}
    /\ cmds' = cmds \cup {LocalPath(n)}
    /\ git_pc' = IF todo' = {} THEN "try" ELSE "scan"
    /\ UNCHANGED <<repos, raised, git_op, now, disk, include, cmd_state, yielded,
                   attempts, failed_cmds, retries, notGit>>

\* One turn of the loop of lines 89-108 over repos_metadata: a directory
\* that is already there goes through _update_local_repo_paths (whose failed
\* assertion leaves clone_new_repos), any other row becomes a clone command.
CloneScan(n) ==
    /\ git_op = "clone"
    /\ git_pc = "scan"
    /\ n \in todo
    /\ todo' = todo \ {n}
    /\ IF disk[LocalPath(n)] = "absent"
       THEN /\ cmds' = cmds \cup {LocalPath(n)}
            /\ git_pc' = IF todo' = {} THEN "try" ELSE "scan"
            /\ UNCHANGED <<repos, raised, git_op>>
       ELSE IF IsGitRepo(disk[LocalPath(n)])
            THEN /\ repos' = SetLocalPath(repos, n, LocalPath(n))
                 /\ git_pc' = IF todo' = {} THEN "try" ELSE "scan"
                 /\ UNCHANGED <<cmds, raised, git_op>>
            ELSE /\ raised' = "AssertionError"
                 /\ git_op' = "done"
                 /\ UNCHANGED <<repos, cmds, git_pc>>
    /\ UNCHANGED <<now, disk, include, cmd_state, yielded, attempts, failed_cmds,
                   retries, notGit>>

\* _try_clone_repos(clone_cmds, retries) is entered: run_git_commands returns
\* without a yield for no commands, else it submits them all to the pool.
CloneTry ==
    /\ git_op = "clone"
    /\ git_pc = "try"
    /\ failed_cmds' = {}
    /\ IF cmds = {}
       THEN /\ git_op' = "done"
            /\ UNCHANGED <<git_pc, cmds, cmd_state, yielded>>
       ELSE /\ git_pc' = "run"
            /\ Submit(cmds, TRUE)
            /\ UNCHANGED git_op
    /\ UNCHANGED <<repos, now, raised, disk, include, todo, attempts, retries, notGit>>

\* _run_command of a clone ends.  A command that returned has made the
\* working copy; one that timed out or exited non-zero leaves nothing, a
\* directory without .git, or a directory with .git.
CloneEnd(p, ok, left) ==
    /\ git_op = "clone"
    /\ cmd_state[p] = "running"
    /\ cmd_state' = [cmd_state EXCEPT ![p] = IF ok THEN "ok" ELSE "failed"]
    /\ disk' = [disk EXCEPT ![p] = IF ok THEN "repo" ELSE left]
    /\ UNCHANGED <<repos, now, raised, git_op, git_pc, include, todo, cmds,
                   yielded, attempts, failed_cmds, retries, notGit>>

\* One turn of the consumer loop of _try_clone_repos (lines 114-123).
CloneYield(p) ==
    /\ git_op = "clone"
    /\ git_pc = "run"
    /\ \A r \in cmds : Finished(cmd_state[r])
    /\ p \in cmds \ yielded
    /\ yielded' = yielded \cup {p}
    /\ IF disk[p] = "absent"
       THEN /\ failed_cmds' = failed_cmds \cup {p}
            /\ UNCHANGED <<repos, raised, git_op>>
       ELSE IF IsGitRepo(disk[p])
            THEN /\ repos' = SetLocalPath(repos, FullNameOf(p), p)
                 /\ UNCHANGED <<failed_cmds, raised, git_op>>
            ELSE /\ raised' = "AssertionError"
                 /\ git_op' = "done"
                 /\ UNCHANGED <<repos, failed_cmds>>
    /\ UNCHANGED <<now, disk, git_pc, include, todo, cmds, cmd_state, attempts,
                   retries, notGit>>

\* Lines 124-132: after the loop, the failed commands are retried while
\* retries - 1 >= 0; otherwise _try_clone_repos and clone_new_repos return.
CloneRoundEnd ==
    /\ git_op = "clone"
    /\ git_pc = "run"
    /\ \A r \in cmds : Finished(cmd_state[r])
    /\ yielded = cmds
    /\ IF failed_cmds = {}
       THEN /\ git_op' = "done"
            /\ UNCHANGED <<retries, cmds, git_pc>>
       ELSE /\ retries' = retries - 1
            /\ IF RetryAgain(retries')
               THEN /\ cmds' = failed_cmds
                    /\ git_pc' = "try"
                    /\ UNCHANGED git_op
               ELSE /\ git_op' = "done"
                    /\ UNCHANGED <<cmds, git_pc>>
    /\ UNCHANGED <<repos, now, raised, disk, include, todo, cmd_state, yielded,
                   attempts, failed_cmds, notGit>>

\* clone_new_repos has returned, or its exception has left it.
CloneReturn ==
    /\ git_op = "done"
    /\ git_op' = "idle"
    /\ DropGitLocals
    /\ UNCHANGED <<repos, now, raised, disk, notGit>>

\* Catalogs and disks clone_new_repos can be called on: a row with a
\* local_path has its working copy; a row without may have anything on disk
\* (left by a crash or by hand).
CloneRows(n) ==
    {[InsertRow([full_name |-> n, updated_at |-> 0, pushed_at |-> 0,
                 stargazers_count |-> 0], 0)
        EXCEPT !["local_path"] = lp, !["blacklisted_reason"] = br] :
        lp \in {NullText, LocalPath(n)}, br \in {NullText, "needs review"}}

InitClone ==
    /\ repos \in {t \in [Names -> UNION {CloneRows(n) : n \in Names}] :
                    \A n \in Names : t[n] \in CloneRows(n)}
    /\ repo_queries = {}
    /\ now = 1
    /\ raised = "none"
    /\ calls = [n \in Names |-> 1]
    /\ disk \in {d \in [Paths -> {"absent", "dir", "repo"}] :
                   \A n \in Names :
                       repos[n]["local_path"] # NullText => d[LocalPath(n)] = "repo"}
    /\ IdleChanges
    /\ IdleGit
    /\ IdleParse
    /\ IdleSearch
    /\ IdleRefresh
    /\ IdleClassifier
    /\ IdleCallers
    /\ IdleQuery
    /\ IdleRun

----------------------------------------------------------------------------
(* Actions of the stats workers *)

\* parse_local_repos, lines 78-88: the queue is filled and the workers start.
ParseStart(include_blacklisted) ==
    /\ Quiet
    /\ par_op' = "run"
    /\ q' \in Orders(local_repo_paths(repos, include_blacklisted,
                                  {row \in Rows(repos) : NoWhere(row)}))
    /\ w_pc' = [w \in Workers |-> "check"]
    /\ w_repo' = [w \in Workers |-> NullText]
    /\ w_in' = [w \in Workers |-> NoInput]
    /\ updates' = [p \in Paths |-> 0]
    /\ raised' = "none"
    /\ UNCHANGED <<repos, notParse>>

\* while n_remaining := q.qsize()
WorkerCheck(w) ==
    /\ w_pc[w] = "check"
    /\ w_pc' = [w_pc EXCEPT ![w] = IF Len(q) > 0 THEN "get" ELSE "exited"]
    /\ UNCHANGED <<repos, raised, par_op, q, w_repo, w_in, updates, notParse>>

\* A get that reads the head of the queue and leaves it there.
WorkerPeek(w, in) ==
    /\ w_pc[w] = "get"
    /\ q # <<>>
    /\ w_repo' = [w_repo EXCEPT ![w] = Head(q)]
    /\ w_in' = [w_in EXCEPT ![w] = in]
    /\ w_pc' = [w_pc EXCEPT ![w] = "work"]
    /\ UNCHANGED <<repos, raised, par_op, q, updates, notParse>>

\* repo_dir = q.get(): blocks while the queue is empty.
WorkerGet(w, in) ==
    /\ w_pc[w] = "get"
    /\ q # <<>>
    /\ w_repo' = [w_repo EXCEPT ![w] = Head(q)]
    /\ q' = Tail(q)
    /\ w_in' = [w_in EXCEPT ![w] = in]
    /\ w_pc' = [w_pc EXCEPT ![w] = "work"]
    /\ UNCHANGED <<repos, raised, par_op, updates, notParse>>

\* Lines 48-75 for repo_dir: get_repo_changes (which catches the failure of
\* its command), the file walk, total_commits (whose ErrorReturnCode leaves
\* worker(), ending the process), then the update statement.
WorkerWork(w) ==
    /\ w_pc[w] = "work"
    /\ IF w_in[w].commits_ok
       THEN /\ repos' = SetStats(repos, w_repo[w], StatsValues(w_in[w]))
            /\ updates' = [updates EXCEPT ![w_repo[w]] = @ + 1]
            /\ w_pc' = [w_pc EXCEPT ![w] = "check"]
       ELSE /\ w_pc' = [w_pc EXCEPT ![w] = "crashed"]
            /\ UNCHANGED <<repos, updates>>
    /\ w_repo' = [w_repo EXCEPT ![w] = NullText]
    /\ w_in' = [w_in EXCEPT ![w] = NoInput]
    /\ UNCHANGED <<raised, par_op, q, notParse>>

\* Lines 89-90: every p.join() has returned.
ParseJoin ==
    /\ par_op = "run"
    /\ \A w \in Workers : w_pc[w] \in {"exited", "crashed"}
    /\ par_op' = "idle"
    /\ q' = <<>>
    /\ w_pc' = [w \in Workers |-> "none"]
    /\ updates' = [p \in Paths |-> 0]
    /\ UNCHANGED <<repos, raised, w_repo, w_in, notParse>>

InitParse ==
    /\ repos \in {t \in [Names -> UNION {CloneRows(n) : n \in Names}] :
                    \A n \in Names : t[n] \in CloneRows(n)}
    /\ repo_queries = {}
    /\ now = 1
    /\ raised = "none"
    /\ calls = [n \in Names |-> 1]
    /\ disk = [p \in Paths |->
                 IF repos[FullNameOf(p)]["local_path"] = p THEN "repo" ELSE "absent"]
    /\ IdleChanges
    /\ IdleGit
    /\ IdleParse
    /\ IdleSearch
    /\ IdleRefresh
    /\ IdleClassifier
    /\ IdleCallers
    /\ IdleQuery
    /\ IdleRun

----------------------------------------------------------------------------
(* Actions of the windowed search *)

\* search_for_repos, lines 36-67: the start of the range, the query list,
\* and the first query's search_end.
SearchStart(start_from_last_crawl) ==
    /\ Quiet
    /\ srch_op' = "run"
    /\ watermark' = SearchStartDay(repos, start_from_last_crawl)
    /\ search_start' = SearchStartDay(repos, start_from_last_crawl)
    /\ search_end' = DateOf(now)
    /\ qi' = 1
    /\ issued' = <<>>
    /\ raised' = "none"
    /\ UNCHANGED <<repos, repo_queries, notSearch>>

\* One turn of `while search_start < search_end` (lines 68-86): the slice
\* is queried, its results are saved, search_start moves on by dt.
SearchWindow(results) ==
    /\ srch_op = "run"
    /\ search_start < search_end
    /\ LET slice == QuerySlice(Queries[qi], search_start,
                               Min(search_end, search_start + WindowDays))
           r == SaveResults(repos, repo_queries, results, Queries[qi], now)
       IN /\ issued' = Append(issued, slice)
          /\ repos' = r.repos
          /\ repo_queries' = r.repo_queries
          /\ raised' = r.exc
          /\ IF r.exc = "none"
             THEN /\ search_start' = search_start + WindowDays
                  /\ UNCHANGED srch_op
             ELSE /\ srch_op' = "aborted"
                  /\ UNCHANGED search_start
    /\ UNCHANGED <<watermark, search_end, qi, notSearch>>

\* One turn of the while loop in which a request of rate_limited_query
\* raises a GithubException that is no throttling error, after `results`
\* were yielded: line 197 raises it again, and nothing in search_for_repos
\* catches it.
SearchWindowRaises(results) ==
    /\ srch_op = "run"
    /\ search_start < search_end
    /\ LET slice == QuerySlice(Queries[qi], search_start,
                               Min(search_end, search_start + WindowDays))
           r == SaveResults(repos, repo_queries, results, Queries[qi], now)
       IN /\ issued' = Append(issued, slice)
          /\ repos' = r.repos
          /\ repo_queries' = r.repo_queries
          /\ raised' = IF r.exc = "none" THEN "GithubException" ELSE r.exc
    /\ srch_op' = "aborted"
    /\ UNCHANGED <<watermark, search_start, search_end, qi, notSearch>>

\* The while loop of `query` ends: the next query of the list starts with
\* search_end = date.today() (line 67), or search_for_repos returns.
SearchNextQuery ==
    /\ srch_op = "run"
    /\ ~(search_start < search_end)
    /\ IF qi < Len(Queries)
       THEN /\ qi' = qi + 1
            /\ search_end' = DateOf(now)
            /\ UNCHANGED srch_op
       ELSE /\ srch_op' = "returned"
            /\ UNCHANGED <<qi, search_end>>
    /\ UNCHANGED <<repos, repo_queries, raised, watermark, search_start, issued,
                   notSearch>>

\* search_for_repos has returned, or the exception of a save has left it.
SearchReturn ==
    /\ srch_op \in {"returned", "aborted"}
    /\ srch_op' = "idle"
    /\ watermark' = LaunchDay
    /\ search_start' = LaunchDay
    /\ search_end' = LaunchDay
    /\ qi' = 1
    /\ issued' = <<>>
    /\ UNCHANGED <<repos, repo_queries, raised, notSearch>>

\* The catalogs and days search_for_repos is called on: no row yet, or one
\* row crawled before, on any day after the launch.
InitSearch ==
    /\ now \in {TicksPerDay * d + 1 : d \in 1..MaxDays}
    /\ repos \in {<<>>}
          \cup {[n \in {"acme/hello"} |->
                    InsertRow([full_name |-> n, updated_at |-> u, pushed_at |-> u,
                               stargazers_count |-> 0], u)]
                 : u \in {TicksPerDay * d : d \in 0..DateOf(now)}}
    /\ repo_queries = {<<n, Queries[1]>> : n \in DOMAIN repos}
    /\ raised = "none"
    /\ calls = [n \in Names |-> 0]
    /\ IdleChanges
    /\ NoDisk
    /\ IdleGit
    /\ IdleParse
    /\ IdleSearch
    /\ IdleRefresh
    /\ IdleClassifier
    /\ IdleCallers
    /\ IdleQuery
    /\ IdleRun

----------------------------------------------------------------------------
(* Actions of the rate-limited query *)

\* The results the searcher of the turn in progress has yielded: each turn
\* calls searcher(query=query) anew (line 168), which lists the results of
\* the query from the first one.
TurnYields == Cardinality({i \in DOMAIN rl_out : rl_out[i].turn = rl_try})

\* The generator is created and its first value is asked for.
QueryStart ==
    /\ rl_pc = "idle"
    /\ rl_pc' = "loop"
    /\ raised' = "none"
    /\ UNCHANGED <<rl_try, rl_clock, rl_left, rl_reqs, rl_rem, rl_reset, rl_sleeps,
                   rl_out, notQuery>>

\* The for statement of line 165: the next turn calls searcher(query=query),
\* which holds n results; after the last turn line 198 logs the error and
\* the generator ends.
QueryLoop(n) ==
    /\ rl_pc = "loop"
    /\ IF MoreTurns(rl_try)
       THEN /\ rl_try' = rl_try + 1
            /\ rl_left' = n
            /\ rl_pc' = "first"
       ELSE /\ rl_pc' = "exhausted"
            /\ UNCHANGED <<rl_try, rl_left>>
    /\ UNCHANGED <<raised, rl_clock, rl_reqs, rl_rem, rl_reset, rl_sleeps, rl_out,
                   notQuery>>

\* Line 168 advances the searcher and gets a result or its end.  The first
\* advance of a turn sends a request, a later one sends a request when the
\* page is used up (page); the response carries the remaining calls and
\* the reset time.
QueryNext(page, rem, ahead) ==
    /\ rl_pc \in {"first", "iter"}
    /\ rl_pc = "first" => page
    /\ IF page
       THEN /\ rl_reqs' = rl_reqs + 1
            /\ rl_rem' = rem
            /\ rl_reset' = rl_clock + ahead
       ELSE UNCHANGED <<rl_reqs, rl_rem, rl_reset>>
    /\ IF rl_left > 0
       THEN /\ rl_left' = rl_left - 1
            /\ rl_out' = Append(rl_out, [turn |-> rl_try, pos |-> TurnYields + 1])
            /\ rl_pc' = "yielded"
       ELSE /\ rl_pc' = "returned"
            /\ UNCHANGED <<rl_left, rl_out>>
    /\ UNCHANGED <<raised, rl_try, rl_clock, rl_sleeps, notQuery>>

\* The request of line 168 raises.  Lines 181-195: a throttling error is
\* logged, the call sleeps 30 minutes and goes on with the for statement;
\* line 197: any other error leaves the generator.
QueryRaises(err) ==
    /\ rl_pc \in {"first", "iter"}
    /\ rl_reqs' = rl_reqs + 1
    /\ IF IsThrottle(err)
       THEN /\ rl_clock' = rl_clock + BackoffSeconds
            /\ rl_sleeps' = rl_sleeps + 1
            /\ rl_pc' = "loop"
            /\ UNCHANGED raised
       ELSE /\ rl_pc' = "raised"
            /\ raised' = err
            /\ UNCHANGED <<rl_clock, rl_sleeps>>
    /\ UNCHANGED <<rl_try, rl_left, rl_rem, rl_reset, rl_out, notQuery>>

\* The consumer asks for the next value: lines 170-179 run after the yield.
QueryResume ==
    /\ rl_pc = "yielded"
    /\ rl_pc' = "iter"
    /\ IF rl_rem = 0 /\ SleepTime(rl_reset, rl_clock) > 0
       THEN rl_clock' = rl_clock + SleepTime(rl_reset, rl_clock)
       ELSE UNCHANGED rl_clock
    /\ UNCHANGED <<raised, rl_try, rl_left, rl_reqs, rl_rem, rl_reset, rl_sleeps,
                   rl_out, notQuery>>

\* Time passes while the consumer handles a result or a request is prepared.
QueryTick ==
    /\ rl_pc \in {"first", "iter", "yielded"}
    /\ rl_clock - BackoffSeconds * rl_sleeps < MaxClock
    /\ rl_clock' = rl_clock + 1
    /\ UNCHANGED <<raised, rl_pc, rl_try, rl_left, rl_reqs, rl_rem, rl_reset,
                   rl_sleeps, rl_out, notQuery>>

InitQuery ==
    /\ InitCatalog
    /\ IdleChanges
    /\ NoDisk
    /\ IdleGit
    /\ IdleParse
    /\ IdleSearch
    /\ IdleRefresh
    /\ IdleClassifier
    /\ IdleCallers
    /\ IdleQuery
    /\ IdleRun

----------------------------------------------------------------------------
(* Actions of the refresh, the classifier and the manual review *)

\* update_saved_repos, lines 120-132; with no name it returns at once.
RefreshStart(include_blacklisted, last_crawled_before) ==
    /\ Quiet
    /\ RefreshNames(repos, include_blacklisted, last_crawled_before) # {}
    /\ ref_op' = "run"
    /\ ref_todo' = RefreshNames(repos, include_blacklisted, last_crawled_before)
    /\ raised' = "none"
    /\ UNCHANGED <<repos, now, notRefresh>>

\* get_repo raises RateLimitExceededException: sleep, then the same name again.
RefreshRateLimited(n) ==
    /\ ref_op = "run"
    /\ n \in ref_todo
    /\ now < MaxTime
    /\ now' = now + 1
    /\ UNCHANGED <<repos, raised, ref_op, ref_todo, notRefresh>>

\* get_repo raises UnknownObjectException: the row is marked and skipped.
RefreshNotFound(n) ==
    /\ ref_op = "run"
    /\ n \in ref_todo
    /\ repos' = SetNotFound(repos, n)
    /\ ref_todo' = ref_todo \ {n}
    /\ ref_op' = IF ref_todo' = {} THEN "idle" ELSE "run"
    /\ UNCHANGED <<now, raised, notRefresh>>

\* get_repo returns the repository: its metadata is upserted; an
\* exception of the upsert leaves update_saved_repos.
RefreshFound(data) ==
    LET n == data["full_name"]
        r == save_repo_metadata(repos, data, now) IN
    /\ ref_op = "run"
    /\ n \in ref_todo
    /\ repos' = r.repos
    /\ raised' = r.exc
    /\ ref_todo' = IF r.exc = "none" THEN ref_todo \ {n} ELSE {}
    /\ ref_op' = IF ref_todo' = {} THEN "idle" ELSE "run"
    /\ UNCHANGED <<now, notRefresh>>

\* blacklist_repos
BlacklistRepos ==
    /\ Quiet
    /\ bl_runs < MaxRuns
    /\ repos' = blacklist_repos(repos)
    /\ bl_runs' = bl_runs + 1
    /\ UNCHANGED <<repo_queries, now, raised, calls, chgVars, gitVars, parVars,
                   srchVars, refVars, rlVars, conVars, sgmVars>>

\* The catalogs blacklist_repos can be called on.  The file counts of a row
\* are set together by parse_local_repos, for a row with a local_path; a
\* reason of the classifier stands in a row not manually checked, the
\* reason 'not mojo code' in a row manually checked.
ClassifierRows(n) ==
    {row \in
        {[InsertRow([full_name |-> n, updated_at |-> 0, pushed_at |-> 0,
                     stargazers_count |-> 0], 0)
            EXCEPT !["n_mojo_files"] = fc[1], !["n_python_files"] = fc[2],
                   !["n_notebook_files"] = fc[3], !["local_path"] = lp,
                   !["blacklisted_reason"] = br, !["manually_checked"] = mc] :
            fc \in {<<NULL, NULL, NULL>>} \cup ({0, 1} \X {0, 1} \X {0, 1}),
            lp \in {NullText, LocalPath(n)}, br \in Reasons \cup {NullText},
            mc \in BOOLEAN} :
        /\ row["n_mojo_files"] # NULL => row["local_path"] # NullText
        /\ row["manually_checked"]
             => row["blacklisted_reason"] \notin {"needs review", "no code files"}
        /\ ~row["manually_checked"] => row["blacklisted_reason"] # "not mojo code"}

InitClassifier ==
    /\ repos \in [Names -> UNION {ClassifierRows(n) : n \in Names}]
    /\ \A n \in Names : repos[n]["full_name"] = n
    /\ repo_queries = {}
    /\ now = 1
    /\ raised = "none"
    /\ calls = [n \in Names |-> 1]
    /\ disk = [p \in Paths |->
                 IF repos[FullNameOf(p)]["local_path"] = p THEN "repo" ELSE "absent"]
    /\ IdleChanges
    /\ IdleGit
    /\ IdleParse
    /\ IdleSearch
    /\ IdleRefresh
    /\ IdleClassifier
    /\ IdleCallers
    /\ IdleQuery
    /\ IdleRun

\* One answer typed at the prompt of cli.py review.
Review(local_path, is_mojo) ==
    /\ Quiet
    /\ local_path \in ReviewPaths(repos)
    /\ repos' = SetReview(repos, local_path, is_mojo)
    /\ UNCHANGED <<repo_queries, now, raised, calls, notCatalog>>

----------------------------------------------------------------------------
(* Specifications *)

NextUpsert ==
    \/ Tick
    \/ \E n \in Names : \E data \in FetchedRecords(n, now) : SaveRepoMetadata(data)

InitUpsert == InitCatalog /\ IdleChanges /\ NoDisk /\ IdleGit /\ IdleParse /\ IdleSearch
    /\ IdleRefresh
    /\ IdleClassifier
    /\ IdleCallers
    /\ IdleQuery
    /\ IdleRun

SpecUpsert == InitUpsert /\ [][NextUpsert]_vars

NextChanges == GetRepoChanges

InitChangesSpec == InitCatalog /\ InitChanges /\ NoDisk /\ IdleGit /\ IdleParse /\ IdleSearch
    /\ IdleRefresh
    /\ IdleClassifier
    /\ IdleCallers
    /\ IdleQuery
    /\ IdleRun

SpecChanges == InitChangesSpec /\ [][NextChanges]_vars

NextPull ==
    \/ Tick
    \/ \E b \in BOOLEAN : PullStart(b)
    \/ \E p \in Paths : GitBegin(p)
    \/ \E p \in Paths : \E ok \in BOOLEAN : PullEnd(p, ok)
    \/ \E p \in Paths : PullRecord(p)
    \/ PullReturn

SpecPull == InitPull /\ [][NextPull]_vars

CloneStep ==
    \/ \E n \in Names : CloneScan(n)
    \/ CloneTry
    \/ \E p \in Paths : GitBegin(p)
    \/ \E p \in Paths : \E ok \in BOOLEAN :
          \E left \in {"absent", "dir", "repo"} : CloneEnd(p, ok, left)
    \/ \E p \in Paths : CloneYield(p)
    \/ CloneRoundEnd
    \/ CloneReturn

NextClone ==
    \/ \E b \in BOOLEAN : CloneStart(b)
    \/ CloneStep

SpecClone == InitClone /\ [][NextClone]_vars

\* Every step of a clone_new_repos call is taken in the end: the pool
\* threads run, and each clone command ends by its 600 s timeout at the latest.
FairSpecClone == SpecClone /\ WF_vars(CloneStep)

NextParse ==
    \/ \E b \in BOOLEAN : ParseStart(b)
    \/ \E w \in Workers : WorkerCheck(w)
    \/ \E w \in Workers : \E in \in MirrorInputs : WorkerGet(w, in)
    \/ \E w \in Workers : WorkerWork(w)
    \/ ParseJoin

SpecParse == InitParse /\ [][NextParse]_vars

NextSearch ==
    \/ \E b \in BOOLEAN : SearchStart(b) /\ UNCHANGED sgmVars
    \/ \E results \in SeqsUpTo(SearchRecords(now), MaxResults) :
          SearchWindow(results) /\ UNCHANGED sgmVars
    \/ \E results \in SeqsUpTo(SearchRecords(now), MaxResults) :
          SearchWindowRaises(results) /\ UNCHANGED sgmVars
    \/ SearchNextQuery /\ UNCHANGED sgmVars
    \/ SearchReturn /\ UNCHANGED sgmVars

SpecSearch == InitSearch /\ [][NextSearch]_vars

QueryStep ==
    \/ QueryStart
    \/ \E n \in 0..MaxPage : QueryLoop(n)
    \/ \E page \in BOOLEAN : \E rem \in {0, 1} : \E ahead \in ResetAhead :
          QueryNext(page, rem, ahead)
    \/ \E err \in ProviderErrors : QueryRaises(err)
    \/ QueryResume

NextQuery ==
    \/ QueryStep
    \/ QueryTick

SpecQuery == InitQuery /\ [][NextQuery]_vars

\* The consumer asks for every value, and every request is answered.
FairSpecQuery == SpecQuery /\ WF_vars(QueryStep)

NextCallers ==
    \/ Tick
    \/ \E c \in Callers : \E data \in CallerRecords : \E query \in CallerQueries :
          CallerSaveRepoQuery(c, data, query)
    \/ \E c \in Callers : \E data \in CallerRecords : CallerBuild(c, data)
    \/ \E c \in Callers : CallerExecute(c)

SpecCallers == InitCallers /\ [][NextCallers]_vars

NextClassifier == BlacklistRepos

SpecClassifier == InitClassifier /\ [][NextClassifier]_vars

\* The whole pipeline on a catalog that starts empty: the search finds the
\* repositories, they are refreshed, cloned, pulled, parsed, classified and
\* reviewed, in any order of the operations.
\* What GitHub returns in this run: one repository, without a license.
PipelineRecords(t) ==
    {d \in SearchRecords(t) : d["full_name"] = "acme/hello" /\ "license" \notin DOMAIN d}

\* What the mirror of that repository holds: one log, any file counts.
PipelineInputs ==
    {in \in MirrorInputs : in.log_ok /\ in.log = NoInput.log}

\* search_for_repos called on its own.
SearchStep ==
    \/ \E b \in BOOLEAN : SearchStart(b) /\ UNCHANGED sgmVars
    \/ \E results \in SeqsUpTo(PipelineRecords(now), MaxResults) :
          SearchWindow(results) /\ UNCHANGED sgmVars
    \/ \E results \in SeqsUpTo(PipelineRecords(now), MaxResults) :
          SearchWindowRaises(results) /\ UNCHANGED sgmVars
    \/ SearchNextQuery /\ UNCHANGED sgmVars
    \/ SearchReturn /\ UNCHANGED sgmVars

\* update_saved_repos called on its own.
RefreshStep ==
    \/ \E b \in BOOLEAN : \E before \in {NULL, now} :
          RefreshStart(b, before) /\ UNCHANGED sgmVars
    \/ \E n \in Names : RefreshRateLimited(n) /\ UNCHANGED sgmVars
    \/ \E n \in Names : RefreshNotFound(n) /\ UNCHANGED sgmVars
    \/ \E data \in PipelineRecords(now) : RefreshFound(data) /\ UNCHANGED sgmVars

ParseStep ==
    \/ \E b \in BOOLEAN : ParseStart(b)
    \/ \E w \in Workers : WorkerCheck(w)
    \/ \E w \in Workers : \E in \in PipelineInputs : WorkerGet(w, in)
    \/ \E w \in Workers : WorkerWork(w)
    \/ ParseJoin

PullStep ==
    \/ \E b \in BOOLEAN : PullStart(b)
    \/ \E p \in Paths : \E ok \in BOOLEAN : PullEnd(p, ok)
    \/ \E p \in Paths : PullRecord(p)
    \/ PullReturn

\* update_saved_repos alone, on the catalogs of two rows.
SpecRefresh == InitPull /\ [][RefreshStep]_vars

\* parse_local_repos alone, on the mirrors of the pipeline.
SpecWorkers == InitParse /\ [][ParseStep]_vars

----------------------------------------------------------------------------
(* One run of save_github_repos_metadata: ghub.py lines 21-31 *)

\* queries of search_for_code: f".{ext} in:path" for the two extensions.
CodeQueries == <<[flame |-> TRUE, fork |-> "in:path"], [flame |-> FALSE, fork |-> "in:path"]>>

\* What search_code yields: a result whose repository was created at or
\* after the launch date (recent), or before.
CodeResults(t) == [repo : PipelineRecords(t), recent : BOOLEAN]

\* The repositories of the results that pass `repo.created_at >=
\* mojo_launch_date` (line 103), in order.
RecentRepos(results) ==
    LET Recent(x) == x.recent
        kept == SelectSeq(results, Recent)
    IN [i \in DOMAIN kept |-> kept[i].repo]

\* The full_names save_repo is called with by a loop over `results`: the
\* loop ends at the first save that raises.
RECURSIVE SavedNames(_, _, _, _, _)
SavedNames(tbl, rq, results, query, t) ==
    IF results = <<>> THEN {}
    ELSE LET r == save_repo(tbl, rq, Head(results), query, t) IN
         {Head(results)["full_name"]}
         \cup (IF r.exc # "none" THEN {}
               ELSE SavedNames(r.repos, r.repo_queries, Tail(results), query, t))

\* Lines 26-28: the start time is read, search_for_repos is entered.
RunStart(start_search_at_last_crawl) ==
    /\ run_op = "idle"
    /\ SearchStart(start_search_at_last_crawl)
    /\ run_op' = "repos"
    /\ start_time' = now
    /\ found' = {}

\* A window of search_for_repos inside the run, ended or not by an error of
\* the provider.
RunSearchWindow(results, fails) ==
    /\ run_op = "repos"
    /\ IF fails THEN SearchWindowRaises(results) ELSE SearchWindow(results)
    /\ found' = found \cup SavedNames(repos, repo_queries, results, Queries[qi], now)
    /\ UNCHANGED <<run_op, start_time>>

RunSearchNextQuery ==
    /\ run_op = "repos"
    /\ SearchNextQuery
    /\ UNCHANGED sgmVars

\* search_for_repos returns to line 29, or its exception leaves the run.
RunSearchReturn ==
    /\ run_op = "repos"
    /\ SearchReturn
    /\ run_op' = IF srch_op = "returned" THEN "code" ELSE "idle"
    /\ UNCHANGED <<start_time, found>>

\* search_for_code, lines 99-110: one query of the two; its results created
\* since the launch are saved.  An exception of a save, or of the provider
\* after the results (fails), leaves the run.
RunSearchCode(results, fails) ==
    LET query == CodeQueries[IF run_op = "code" THEN 1 ELSE 2]
        r == SaveResults(repos, repo_queries, RecentRepos(results), query, now)
        exc == IF r.exc = "none" /\ fails THEN "GithubException" ELSE r.exc
    IN /\ run_op \in {"code", "code2"}
       /\ repos' = r.repos
       /\ repo_queries' = r.repo_queries
       /\ raised' = exc
       /\ found' = found \cup SavedNames(repos, repo_queries, RecentRepos(results),
                                         query, now)
       /\ run_op' = IF exc # "none" THEN "idle"
                    ELSE IF run_op = "code" THEN "code2" ELSE "update"
       /\ UNCHANGED <<start_time, now, calls, clsVars, conVars, chgVars, gitVars,
                      parVars, srchVars, refVars, rlVars>>

\* Line 31: update_saved_repos(client, include_blacklisted, start_time)
\* selects its names, and returns at once when there is none.
RunRefreshStart(include_blacklisted) ==
    /\ run_op = "update"
    /\ IF RefreshNames(repos, include_blacklisted, start_time) = {}
       THEN /\ run_op' = "idle"
            /\ UNCHANGED <<catVars, clsVars, conVars, chgVars, gitVars, parVars,
                           srchVars, refVars, rlVars>>
       ELSE /\ RefreshStart(include_blacklisted, start_time)
            /\ run_op' = "refresh"
    /\ UNCHANGED <<start_time, found>>

\* The loop of update_saved_repos inside the run; the run returns with it.
RunRefreshRateLimited(n) ==
    /\ run_op = "refresh"
    /\ RefreshRateLimited(n)
    /\ UNCHANGED sgmVars

RunRefreshNotFound(n) ==
    /\ run_op = "refresh"
    /\ RefreshNotFound(n)
    /\ run_op' = IF ref_op' = "idle" THEN "idle" ELSE "refresh"
    /\ UNCHANGED <<start_time, found>>

RunRefreshFound(data) ==
    /\ run_op = "refresh"
    /\ RefreshFound(data)
    /\ run_op' = IF ref_op' = "idle" THEN "idle" ELSE "refresh"
    /\ UNCHANGED <<start_time, found>>

\* The catalogs a run starts on: two rows crawled before, blacklisted or
\* not, on the day after the launch.
RunRows(n) ==
    {[InsertRow([full_name |-> n, updated_at |-> 0, pushed_at |-> 0,
                 stargazers_count |-> 0], lc)
        EXCEPT !["blacklisted_reason"] = br] :
        lc \in {0, 1}, br \in {NullText, "needs review"}}

InitRun ==
    /\ repos \in [Names -> UNION {RunRows(n) : n \in Names}]
    /\ \A n \in Names : repos[n]["full_name"] = n
    /\ repo_queries = {<<n, Queries[1]>> : n \in Names}
    /\ now = TicksPerDay
    /\ raised = "none"
    /\ calls = [n \in Names |-> 1]
    /\ IdleChanges
    /\ NoDisk
    /\ IdleGit
    /\ IdleParse
    /\ IdleSearch
    /\ IdleRefresh
    /\ IdleClassifier
    /\ IdleCallers
    /\ IdleQuery
    /\ IdleRun

NextRun ==
    \/ Tick
    \/ \E b \in BOOLEAN : RunStart(b)
    \/ \E results \in SeqsUpTo(PipelineRecords(now), MaxResults) :
          \E fails \in BOOLEAN : RunSearchWindow(results, fails)
    \/ RunSearchNextQuery
    \/ RunSearchReturn
    \/ \E results \in SeqsUpTo(CodeResults(now), MaxResults) :
          \E fails \in BOOLEAN : RunSearchCode(results, fails)
    \/ \E b \in BOOLEAN : RunRefreshStart(b)
    \/ \E n \in Names : RunRefreshRateLimited(n)
    \/ \E n \in Names : RunRefreshNotFound(n)
    \/ \E data \in PipelineRecords(now) : RunRefreshFound(data)

SpecRun == InitRun /\ [][NextRun]_vars

Automatic ==
    \/ SearchStep
    \/ RefreshStep
    \/ PullStep
    \/ NextClone
    \/ ParseStep
    \/ BlacklistRepos

Next ==
    \/ Tick
    \/ Automatic
    \/ \E p \in Paths \cup {NullText} : \E is_mojo \in BOOLEAN : Review(p, is_mojo)

Init ==
    /\ repos \in StoredCatalogs
    /\ repo_queries = {}
    /\ now = 0
    /\ raised = "none"
    /\ calls = [n \in Names |-> IF n \in DOMAIN repos THEN repos[n]["n_crawls"] ELSE 0]
    /\ IdleChanges
    /\ NoDisk
    /\ IdleGit
    /\ IdleParse
    /\ IdleSearch
    /\ IdleRefresh
    /\ IdleClassifier
    /\ IdleCallers
    /\ IdleQuery
    /\ IdleRun

Spec == Init /\ [][Next]_vars

----------------------------------------------------------------------------
(* Claims *)

\* C1: after the k-th save_repo_metadata call on a full_name that started
\* without a row, the row has n_crawls = k.
C1_NCrawlsCountsCalls ==
    \A n \in Names :
        /\ calls[n] = 0 => n \notin DOMAIN repos
        /\ calls[n] > 0 => n \in DOMAIN repos /\ repos[n]["n_crawls"] = calls[n]

\* The sums the claim speaks of: over the commit segments of the log, the
\* counts of each segment's summary line.
RECURSIVE SumOver(_, _, _)
SumOver(log, idx, field) ==
    IF idx = {} THEN 0
    ELSE LET i == CHOOSE j \in idx : TRUE
             seg == CommitSegment(log, i)
             last == seg[Len(seg)]
         IN (IF last.k = "summary" THEN GroupOrZero(last[field]) ELSE 0)
            + SumOver(log, idx \ {i}, field)

\* C2: lines_added and lines_deleted are the sums of the insertion and
\* deletion counts over all commit segments; both are 0 without a segment.
C2_ChangesAreSums ==
    (chg_pc = "done" /\ git_ok) =>
        /\ repo_changes.lines_added = SumOver(commit_log, Matches(commit_log), "ins")
        /\ repo_changes.lines_deleted = SumOver(commit_log, Matches(commit_log), "del")

\* C3: git_pull_local_repos sets last_pulled_at only for a record whose pull
\* command succeeded, and when it returns every record whose pull failed is
\* still a pull candidate.
C3_PullRecordsOnlySuccess ==
    [][/\ \A n \in DOMAIN repos :
            repos'[n]["last_pulled_at"] # repos[n]["last_pulled_at"]
                => cmd_state[repos[n]["local_path"]] = "ok"
       /\ (git_op = "pull" /\ git_op' = "idle")
            => \A p \in cmds :
                 cmd_state[p] = "failed" => p \in PullCandidates(repos', include)]_vars

\* C4: across every step of the automatic operations (search and refresh
\* with their upserts, pull, clone, stats extraction, classifier) a row with
\* manually_checked = true keeps its blacklisted_reason.
C4_ManuallyCheckedFreezesReason ==
    [][Automatic =>
        \A n \in DOMAIN repos :
            repos[n]["manually_checked"]
                => repos'[n]["blacklisted_reason"] = repos[n]["blacklisted_reason"]]_vars

\* The window loop of the first query of the list has ended.
WindowsDone ==
    \/ srch_op = "run" /\ qi > 1
    \/ srch_op = "returned"

\* C5 as stated: once the windows are issued, no day is in two of them, each
\* covers at most 20 days, and their union is the days from the watermark
\* up to, not including, today.
C5_WindowsPartitionRange ==
    WindowsDone =>
        /\ \A i, j \in DOMAIN issued :
              i # j => SliceDays(issued[i]) \cap SliceDays(issued[j]) = {}
        /\ \A i \in DOMAIN issued : Cardinality(SliceDays(issued[i])) <= WindowDays
        /\ UNION {SliceDays(issued[i]) : i \in DOMAIN issued}
              = watermark..(DateOf(now) - 1)

\* C5 amended: the windows are issued in order from the watermark, each
\* starts on the day the one before ends and reaches at most 20 days
\* further, so that two windows share exactly that boundary day; once all are
\* issued their union is the days from the watermark up to and including
\* today.
C5_WindowsCoverRange ==
    /\ \A i \in DOMAIN issued :
          /\ issued[i].start = IF i = 1 THEN watermark ELSE issued[i - 1].end
          /\ issued[i].start < issued[i].end
          /\ issued[i].end - issued[i].start <= WindowDays
          /\ issued[i].end <= DateOf(now)
    /\ \A i, j \in DOMAIN issued :
          i < j => SliceDays(issued[i]) \cap SliceDays(issued[j])
                     = IF j = i + 1 THEN {issued[i].end} ELSE {}
    /\ WindowsDone =>
          UNION {SliceDays(issued[i]) : i \in DOMAIN issued} = watermark..DateOf(now)

\* C5 witness: three windows were issued, the last one shorter than 20
\* days, and the window loop has ended.
C5_Witness ==
    /\ WindowsDone
    /\ Len(issued) = 3
    /\ issued[3].end - issued[3].start < WindowDays
    /\ issued[2].end - issued[2].start = WindowDays

\* The first days of the windows of the range from the watermark to today.
WindowStarts ==
    {d \in watermark..(DateOf(now) - 1) : (d - watermark) % WindowDays = 0}

\* C6: when search_for_repos returns, every query of its list was run
\* exactly once over every window of the range.
C6_OneQueryPerCombination ==
    srch_op = "returned" =>
        \A k \in DOMAIN Queries : \A d \in WindowStarts :
            Cardinality({i \in DOMAIN issued :
                            issued[i].query = Queries[k] /\ issued[i].start = d}) = 1

\* The step handles the clone candidate n: the scan loop takes its row, or
\* the consumer loop takes its finished clone command.
CloneHandles(n) ==
    /\ git_op = "clone"
    /\ \/ n \in todo /\ n \notin todo'
       \/ LocalPath(n) \in yielded' \ yielded

\* C7: clone_new_repos writes local_path only for a directory that exists
\* and holds .git; for a directory without .git local_path stays unset and
\* the failure is raised.
C7_LocalPathOnlyAfterGitCheck ==
    [][\A n \in DOMAIN repos :
        /\ repos'[n]["local_path"] # repos[n]["local_path"]
            => /\ disk[LocalPath(n)] = "repo"
               /\ repos'[n]["local_path"] = LocalPath(n)
        /\ (CloneHandles(n) /\ disk[LocalPath(n)] = "dir")
            => /\ repos'[n]["local_path"] = NullText
               /\ raised' = "AssertionError"]_vars

\* C7 witness: one clone was recorded in this call, and another candidate's
\* directory without .git raised and left its local_path unset.
C7_Witness ==
    \E n, m \in DOMAIN repos :
        /\ raised = "AssertionError"
        /\ disk[LocalPath(n)] = "dir"
        /\ repos[n]["local_path"] = NullText
        /\ LocalPath(n) \in yielded
        /\ attempts[LocalPath(m)] > 0
        /\ repos[m]["local_path"] = LocalPath(m)

\* C8: a directory without .git fails only its own unit: local_path stays
\* unset, the command joins the next retry batch, and clone_new_repos goes
\* on with the other repositories.
C8_ValidationFailureIsLocal ==
    [][\A n \in DOMAIN repos :
        (CloneHandles(n) /\ disk[LocalPath(n)] = "dir")
            => /\ repos'[n]["local_path"] = NullText
               /\ git_op' = "clone"
               /\ LocalPath(n) \in failed_cmds']_vars

\* C9: when the change-stat log command or the commit-count command fails
\* for a mirror, its statistics are written as zero and the worker goes on
\* with the queue.
C9_StatsFailureGivesZero ==
    [][\A w \in Workers :
        (w_pc[w] = "work" /\ w_pc'[w] # "work")
            => LET row == repos'[FullNameOf(w_repo[w])] IN
               /\ w_pc'[w] = "check"
               /\ ~w_in[w].log_ok
                    => /\ row["lines_added_30d"] = 0
                       /\ row["lines_deleted_30d"] = 0
                       /\ row["files_changed_30d"] = 0
               /\ ~w_in[w].commits_ok => row["commits"] = 0]_vars

\* C10: clone_new_repos terminates; a command is started at most
\* retries + 1 times, a retry batch holds only commands that failed in the
\* round before, and a command that succeeded is never started again.
C10_CloneRetriesBounded ==
    /\ [](\A p \in Paths : attempts[p] <= DefaultRetries + 1)
    /\ [][/\ (git_op = "clone" /\ git_pc = "run" /\ git_pc' = "try")
               => cmds' \subseteq {p \in cmds : cmd_state[p] = "failed"}
          /\ \A p \in Paths :
               (git_op = "clone" /\ git_op' = "clone" /\ cmd_state[p] = "ok")
                   => cmd_state'[p] = "ok"]_vars
    /\ (git_op = "clone") ~> (git_op = "idle")

\* C10 witness: a command has been started retries + 1 times and the call
\* has returned, while another command succeeded.
C10_Witness ==
    \E p, r \in Paths :
        /\ attempts[p] = DefaultRetries + 1
        /\ cmd_state[p] = "failed"
        /\ cmd_state[r] = "ok"
        /\ attempts[r] = 2
        /\ retries = -1
        /\ git_op = "done"

\* C11: a request that follows a consumed result whose response reported 0
\* remaining calls is sent no earlier than the reported reset time plus the
\* margin; the reset time is no earlier than the time of that response.
C11_NoRequestBeforeReset ==
    [][(rl_pc = "iter" /\ rl_rem = 0 /\ rl_reqs' = rl_reqs + 1)
          => rl_clock >= rl_reset + MarginSeconds]_vars

\* C11 witness: 0 remaining was reported with the reset 5 seconds ahead, the
\* call slept, and the next request has been sent.
C11_Witness ==
    /\ rl_pc = "yielded"
    /\ rl_reqs = 2
    /\ rl_try = 1
    /\ rl_left = 0
    /\ rl_clock = 5 + MarginSeconds
    /\ rl_reset > rl_clock

\* C13: when a GithubException that is no throttling error leaves
\* rate_limited_query in one window, search_for_repos goes on with the
\* windows and queries that remain.
C13_ProviderErrorAbortsQueryOnly ==
    [][(srch_op = "run" /\ raised' = "GithubException") => srch_op' = "run"]_vars

\* The call has ended: by return, by the logged error, or by an exception.
QueryEnded == rl_pc \in {"returned", "exhausted", "raised"}

\* C12: a throttled request makes rate_limited_query sleep the 30-minute
\* backoff and go on with the loop, which runs the query again while fewer
\* than `retries` turns were taken; the turns never exceed `retries`, the
\* call ends, and when every turn was throttled it ends with the logged
\* error and no exception.
C12_ThrottledQueryTerminates ==
    /\ [](rl_try <= QueryRetries)
    /\ [][/\ rl_sleeps' # rl_sleeps
               => /\ rl_clock' = rl_clock + BackoffSeconds
                  /\ rl_pc' = "loop"
                  /\ raised' = raised
          /\ (rl_pc = "loop" /\ rl_try < QueryRetries) => rl_pc' = "first"]_vars
    /\ [](rl_sleeps = QueryRetries => (QueryEnded => rl_pc = "exhausted" /\ raised = "none"))
    /\ (rl_pc = "loop") ~> QueryEnded

\* C12 witness: every turn was throttled and the call has ended with the
\* logged error.
C12_Witness ==
    /\ rl_pc = "exhausted"
    /\ rl_try = QueryRetries
    /\ rl_sleeps = QueryRetries
    /\ rl_clock >= QueryRetries * BackoffSeconds
    /\ raised = "none"

\* C14: a blacklist_repos call leaves every row with manually_checked =
\* true as it was.
C14_ClassifierSkipsManuallyChecked ==
    [][bl_runs' # bl_runs
          => \A n \in DOMAIN repos :
                repos[n]["manually_checked"] => repos'[n] = repos[n]]_vars

\* C14 witness: blacklist_repos has run on a manually checked row with the
\* reason 'not mojo code' and all counts 0, and on a manually checked row
\* with no reason and no mojo file.
C14_Witness ==
    /\ bl_runs = 1
    /\ \E n, m \in DOMAIN repos :
          /\ repos[n]["manually_checked"]
          /\ repos[n]["blacklisted_reason"] = "not mojo code"
          /\ repos[n]["n_mojo_files"] = 0
          /\ repos[n]["n_python_files"] = 0
          /\ repos[n]["n_notebook_files"] = 0
          /\ repos[n]["local_path"] # NullText
          /\ repos[m]["manually_checked"]
          /\ repos[m]["blacklisted_reason"] = NullText
          /\ repos[m]["n_mojo_files"] = 0
          /\ repos[m]["n_python_files"] = 1

\* The reason the claim gives a row that is not manually checked.
ClaimedReason(row) ==
    IF /\ row["n_mojo_files"] = 0 /\ row["n_python_files"] = 0
       /\ row["n_notebook_files"] = 0
       /\ row["blacklisted_reason"] = NullText /\ row["local_path"] # NullText
    THEN "no code files"
    ELSE IF row["n_mojo_files"] > 0 /\ row["blacklisted_reason"] # NullText
    THEN NullText
    ELSE IF row["n_mojo_files"] = 0 /\ row["blacklisted_reason"] = NullText
    THEN "needs review"
    ELSE row["blacklisted_reason"]

\* C15: a blacklist_repos call gives every row that is not manually checked
\* the reason of the first rule that holds for it, leaves the reason when
\* none holds, and writes no other column.
C15_ClassifierRules ==
    [][bl_runs' # bl_runs
          => \A n \in DOMAIN repos :
                ~repos[n]["manually_checked"]
                   => repos'[n] = [repos[n] EXCEPT !["blacklisted_reason"] =
                                                      ClaimedReason(repos[n])]]_vars

\* C15 witness: after one call the catalog holds a row set to 'no code
\* files' and a row set to 'needs review'; or a row cleared and a row with
\* unset counts left alone.
C15_Witness ==
    /\ bl_runs = 1
    /\ \E n, m \in DOMAIN repos :
          /\ ~repos[n]["manually_checked"] /\ ~repos[m]["manually_checked"]
          /\ repos[n]["blacklisted_reason"] = "no code files"
          /\ repos[n]["n_mojo_files"] = 0 /\ repos[n]["n_python_files"] = 0
          /\ repos[n]["n_notebook_files"] = 0
          /\ repos[m]["blacklisted_reason"] = "needs review"
          /\ repos[m]["n_mojo_files"] = 0 /\ repos[m]["n_notebook_files"] = 1

\* C16: a second blacklist_repos call, on the catalog the first one left,
\* changes no row.
C16_ClassifierIdempotent ==
    [][(bl_runs >= 1 /\ bl_runs' # bl_runs) => repos' = repos]_vars

\* C16 witness: blacklist_repos has run twice on a catalog whose rows it
\* classified.
C16_Witness ==
    /\ bl_runs = 2
    /\ \E n, m \in DOMAIN repos :
          /\ repos[n]["blacklisted_reason"] = "no code files"
          /\ ~repos[m]["manually_checked"]
          /\ repos[m]["n_mojo_files"] = 1
          /\ repos[m]["blacklisted_reason"] = NullText

\* The six orders of the three update statements.
RuleOrders == {o \in [1..3 -> 1..3] : {o[1], o[2], o[3]} = 1..3}

\* Statement 1 comes before statement 3 in the order.
OneBeforeThree(o) ==
    \E i, j \in 1..3 : i < j /\ o[i] = 1 /\ o[j] = 3

\* C17 as stated: no row meets the where clauses of two statements, and
\* every order of the statements gives the table blacklist_repos gives.
C17_RulesOrderIndependent ==
    /\ \A row \in Rows(repos) : \A j, k \in 1..3 :
          j # k => ~(RuleWhere(j, row) /\ RuleWhere(k, row))
    /\ \A o \in RuleOrders : ApplyRules(repos, o) = blacklist_repos(repos)

\* C17 amended: the where clause of statement 2 excludes those of 1 and 3,
\* a row that meets the clause of statement 1 meets that of statement 3,
\* the orders with statement 1 before statement 3 give the table
\* blacklist_repos gives, and the other orders give it exactly when no row
\* meets the clause of statement 1.
C17_RulesOrderUpToOverlap ==
    /\ \A row \in Rows(repos) :
          /\ ~(RuleWhere(2, row) /\ (RuleWhere(1, row) \/ RuleWhere(3, row)))
          /\ RuleWhere(1, row) => RuleWhere(3, row)
    /\ \A o \in RuleOrders :
          IF OneBeforeThree(o)
          THEN ApplyRules(repos, o) = blacklist_repos(repos)
          ELSE (ApplyRules(repos, o) = blacklist_repos(repos))
                  <=> ~\E row \in Rows(repos) : RuleWhere(1, row)

\* C17 witness: a row meets the clauses of statements 1 and 3; the code's
\* order makes it 'no code files', statement 3 first makes it 'needs
\* review'.
C17_Witness ==
    \E n \in DOMAIN repos :
        /\ RuleWhere(1, repos[n])
        /\ RuleWhere(3, repos[n])
        /\ blacklist_repos(repos)[n]["blacklisted_reason"] = "no code files"
        /\ ApplyRules(repos, <<3, 2, 1>>)[n]["blacklisted_reason"] = "needs review"
        /\ ApplyRules(repos, <<2, 1, 3>>)[n]["blacklisted_reason"] = "no code files"

\* C18: no step removes or changes a pair of repo_queries; the
\* save_repo_query of a caller adds exactly its pair, or nothing when the
\* pair is there; and the pair of every caller that went through
\* save_repo_query is held, whatever became of its upsert.
C18_RepoQueriesAppendOnly ==
    /\ [][/\ repo_queries \subseteq repo_queries'
          /\ \A c \in Callers :
                (callers[c].pc = "idle" /\ callers'[c].pc = "queried")
                   => repo_queries' =
                        repo_queries \cup {<<callers'[c].data["full_name"],
                                            callers'[c].query>>}]_vars
    /\ [](\A c \in Callers :
            callers[c].query # NoQuery
               => <<callers[c].data["full_name"], callers[c].query>> \in repo_queries)

\* C18 witness: two callers have saved the same repository with different
\* queries, both calls have ended, and both pairs are in repo_queries.
C18_Witness ==
    \E c, d \in Callers :
        /\ callers[c].pc \in {"done", "failed"}
        /\ callers[d].pc \in {"done", "failed"}
        /\ callers[c].data["full_name"] = callers[d].data["full_name"]
        /\ callers[c].query \in CallerQueries
        /\ callers[d].query \in CallerQueries
        /\ callers[c].query # callers[d].query
        /\ {<<callers[c].data["full_name"], callers[c].query>>,
            <<callers[d].data["full_name"], callers[d].query>>} \subseteq repo_queries

C20_ConcurrentSavesAllCount ==
    (\A c \in Callers : callers[c].pc \in {"done", "failed"})
       => \A c \in Callers :
             LET n == callers[c].data["full_name"] IN
             /\ n \in DOMAIN repos
             /\ repos[n]["n_crawls"] = calls[n]
             /\ \E d \in Callers :
                   /\ callers[d].data["full_name"] = n
                   /\ \A col \in DOMAIN callers[d].data :
                         repos[n][col] = callers[d].data[col]

KeptColumns ==
    {"first_crawled_at", "local_path", "last_pulled_at", "commits", "n_mojo_files",
     "n_python_files", "n_notebook_files", "lines_added_30d", "lines_deleted_30d",
     "files_changed_30d", "blacklisted_reason", "manually_checked"}

\* C27: the transaction of a save_repo_metadata call whose full_name has a
\* row gives the row the fields of the record, raises n_crawls by one, sets
\* last_crawled_at, and leaves the kept columns as they were.
C27_ConflictMergesRecord ==
    [][\A c \in Callers :
          LET data == callers[c].data
              n == data["full_name"] IN
          (callers[c].pc = "built" /\ callers'[c].pc # "built" /\ n \in DOMAIN repos)
             => /\ \A col \in DOMAIN data : repos'[n][col] = data[col]
                /\ repos'[n]["n_crawls"] = repos[n]["n_crawls"] + 1
                /\ repos'[n]["last_crawled_at"] = callers[c].built_at
                /\ \A col \in KeptColumns : repos'[n][col] = repos[n][col]]_vars

\* The records whose local_path is one of paths.
RecordsAt(tbl, paths) == {n \in DOMAIN tbl : tbl[n]["local_path"] \in paths}

\* C22: in every catalog the records git_pull_local_repos selects are those
\* with a local_path and last_pulled_at unset or before pushed_at, the
\* records clone_new_repos selects are those without a local_path, no
\* record is in both, and with include_blacklisted = false neither holds a
\* record with a blacklisted_reason.
C22_CandidateSetsDisjoint ==
    \A b1, b2 \in BOOLEAN :
        LET pull == RecordsAt(repos, PullCandidates(repos, b1))
            clone == CloneCandidates(repos, b2) IN
        /\ pull \cap clone = {}
        /\ pull = {n \in DOMAIN repos :
                     /\ repos[n]["local_path"] # NullText
                     /\ \/ repos[n]["last_pulled_at"] = NULL
                        \/ repos[n]["last_pulled_at"] < repos[n]["pushed_at"]
                     /\ b1 \/ repos[n]["blacklisted_reason"] = NullText}
        /\ clone = {n \in DOMAIN repos :
                      /\ repos[n]["local_path"] = NullText
                      /\ b2 \/ repos[n]["blacklisted_reason"] = NullText}
        /\ ~b1 => \A n \in pull : repos[n]["blacklisted_reason"] = NullText
        /\ ~b2 => \A n \in clone : repos[n]["blacklisted_reason"] = NullText

\* C22 witness: git_pull_local_repos(include_blacklisted = false) is running
\* the command of one record while the other record has no local_path and
\* is a clone candidate only when blacklisted records are included.
C22_Witness ==
    /\ git_op = "pull"
    /\ ~include
    /\ \E n, m \in DOMAIN repos :
          /\ repos[n]["local_path"] \in cmds
          /\ m \in CloneCandidates(repos, TRUE)
          /\ m \notin CloneCandidates(repos, FALSE)

\* Where a mirror path is during parse_local_repos: the times it stands in
\* the queue, the workers that hold it, the update statements run for it.
PathCount(p) ==
    Cardinality({i \in 1..Len(q) : q[i] = p})
      + Cardinality({w \in Workers : w_repo[w] = p})
      + updates[p]

\* C23: a mirror path is never in two places (queue, a worker, updated), a
\* step moves it from one place to the next and loses it only when the
\* worker holding it ends on a failed subprocess, and when the workers have
\* left their loop the queue is empty: with no failure every path put on
\* the queue has had exactly one update statement.
C23_EachPathProcessedOnce ==
    /\ [](\A p \in Paths : PathCount(p) <= 1)
    /\ [](\A w \in Workers : w_repo[w] # NullText <=> w_pc[w] = "work")
    /\ []((\E w \in Workers : w_pc[w] = "exited") => q = <<>>)
    /\ [][(par_op = "run" /\ par_op' = "run")
            => \A p \in Paths :
                  \/ PathCount(p)' = PathCount(p)
                  \/ \E w \in Workers :
                        w_repo[w] = p /\ ~w_in[w].commits_ok /\ w_pc'[w] = "crashed"]_vars

\* C23 witness: two paths were queued, no worker failed, both workers have
\* left the loop and each path has had one update statement.
C23_Witness ==
    /\ par_op = "run"
    /\ \A w \in Workers : w_pc[w] = "exited"
    /\ \A p \in Paths : updates[p] = 1

\* C24: no worker of parse_local_repos waits in q.get() on an empty queue.
C24_NoWorkerBlockedOnQueue ==
    \A w \in Workers : ~(w_pc[w] = "get" /\ q = <<>>)

\* C25: every step of update_saved_repos visits one repository and goes on
\* with the others: a repository reported as not found gets the reason
\* 'not found' with n_crawls and last_crawled_at as they were, any other
\* repository visited has its upsert made, and none is dropped unvisited.
C25_NotFoundIsTerminalOthersRefreshed ==
    [][ref_op = "run"
          => /\ Cardinality(ref_todo \ ref_todo') <= 1
             /\ \A n \in ref_todo \ ref_todo' :
                   \/ /\ repos'[n] = [repos[n] EXCEPT !["blacklisted_reason"] = "not found"]
                      /\ raised' = "none"
                   \/ /\ repos'[n]["n_crawls"] = repos[n]["n_crawls"] + 1
                      /\ raised' = "none"]_vars

\* C26: the catalog write for a pull command that has finished does not
\* wait for the other commands of the batch: whenever a command has
\* finished and its write is not made yet, the write can be made.
C26_FinishedCommandIsRecorded ==
    \A p \in cmds \ yielded :
        (git_op = "pull" /\ Finished(cmd_state[p])) => ENABLED PullRecord(p)

\* C28: when the consumer loop of _try_clone_repos takes a clone command
\* that timed out or exited non-zero, whatever the command left on disk,
\* local_path stays unset for its repository and the command is put in
\* failed_cmds, the next retry batch.
C28_FailedCloneIsRetried ==
    [][\A p \in Paths :
          (git_op = "clone" /\ p \in yielded' \ yielded /\ cmd_state[p] = "failed")
             => /\ repos'[FullNameOf(p)]["local_path"] = NullText
                /\ p \in failed_cmds'
                /\ raised' = "none"]_vars

\* C29: when the scan loop of clone_new_repos takes a candidate whose
\* directory is a working copy, it records the path and makes no clone
\* command for it; and no command is ever started for a repository whose
\* local_path is recorded.
C29_ExistingCloneIsRecorded ==
    [][/\ \A n \in DOMAIN repos :
            (git_op = "clone" /\ git_pc = "scan" /\ n \in todo \ todo'
               /\ disk[LocalPath(n)] = "repo")
               => /\ repos'[n]["local_path"] = LocalPath(n)
                  /\ LocalPath(n) \notin cmds'
                  /\ raised' = "none"
       /\ \A p \in Paths :
            (git_op = "clone" /\ attempts'[p] > attempts[p])
               => repos[FullNameOf(p)]["local_path"] = NullText]_vars

\* C29 witness: clone_new_repos found candidates, its scan loop is over
\* with no clone command made, and every row has its path: the candidates
\* were recorded from the working copies on disk.
C29_Witness ==
    /\ git_op = "clone"
    /\ git_pc = "try"
    /\ cmds = {}
    /\ retries = DefaultRetries
    /\ \A n \in DOMAIN repos :
          repos[n]["local_path"] = LocalPath(n) /\ disk[LocalPath(n)] = "repo"

\* C30: at most max_git_io commands of a batch run at a time; a command of
\* a pull batch is started once; a command is yielded only when finished,
\* one at a time, and its result is not changed afterwards; and when
\* git_pull_local_repos returns every command of the batch was started once
\* and yielded.
C30_BoundedPoolRunsEachOnce ==
    /\ [](Cardinality({p \in cmds : cmd_state[p] = "running"}) <= max_git_io)
    /\ [](git_op = "pull"
            => /\ \A p \in cmds :
                    /\ attempts[p] <= 1
                    /\ attempts[p] = 1 <=> cmd_state[p] # "queued"
               /\ \A p \in yielded : p \in cmds /\ Finished(cmd_state[p]))
    /\ [][/\ (git_op = "pull" /\ git_op' = "pull")
               => /\ yielded \subseteq yielded'
                  /\ Cardinality(yielded' \ yielded) <= 1
                  /\ \A p \in cmds : Finished(cmd_state[p])
                                          => cmd_state'[p] = cmd_state[p]
          /\ (git_op = "pull" /\ git_op' = "idle")
               => /\ yielded = cmds
                  /\ \A p \in cmds : attempts[p] = 1]_vars

\* C30 witness: a batch of two pull commands, one that succeeded and one
\* that timed out or exited non-zero, both yielded.
C30_Witness ==
    /\ git_op = "pull"
    /\ Cardinality(cmds) = 2
    /\ yielded = cmds
    /\ \E p, r \in cmds : cmd_state[p] = "ok" /\ cmd_state[r] = "failed"

\* The paths the claim speaks of: over the commit segments of the log that
\* end in a summary line, the text left of "|" of the lines that stand
\* between that summary line and the blank line above it.
RECURSIVE StatPaths(_, _)
StatPaths(log, idx) ==
    IF idx = {} THEN {}
    ELSE LET i == CHOOSE j \in idx : TRUE
             seg == CommitSegment(log, i)
             last == seg[Len(seg)]
         IN (IF last.k = "summary"
             THEN FilesAbove(SubSeq(seg, 1, Len(seg) - 1))
             ELSE {})
            \cup StatPaths(log, idx \ {i})

\* C31: files_changed is the union, over all commit segments, of the paths of
\* the per-file lines directly above each segment's summary line; a line of
\* a commit message is never counted as a file.
C31_FilesChangedAreStatPaths ==
    (chg_pc = "done" /\ git_ok) =>
        repo_changes.files_changed = StatPaths(commit_log, Matches(commit_log))

\* C32: search_for_repos starts the range at the launch date when it is not
\* asked to start from the last crawl or the catalog holds no updated_at,
\* and else at the day of the greatest updated_at less the backoff of 3
\* days; every query of the list begins its windows at that same start.
C32_SearchStartSharedByQueries ==
    /\ [][(srch_op = "idle" /\ srch_op' = "run") =>
            /\ search_start' = watermark'
            /\ MaxUpdatedAt(repos) = NULL => search_start' = LaunchDay
            /\ search_start' \in
                  {LaunchDay} \cup
                  {DateOf(u) - BackoffDays : u \in {MaxUpdatedAt(repos)} \ {NULL}}]_vars
    /\ []((/\ srch_op = "run"
           /\ \A i \in DOMAIN issued : issued[i].query # Queries[qi])
            => search_start = watermark)

\* C33: in every state, also between the two transactions of save_repo and
\* after a failed metadata upsert, every pair of repo_queries names a
\* repository that has a row in repos.
C33_RepoQueriesReferToRepos ==
    \A pair \in repo_queries : pair[1] \in DOMAIN repos

C35_NotFoundSurvivesClassifier ==
    [][\A n \in DOMAIN repos :
          (/\ bl_runs' = bl_runs + 1
           /\ repos[n]["blacklisted_reason"] = "not found"
           /\ ~repos[n]["manually_checked"])
             => /\ repos'[n]["blacklisted_reason"] = "not found"
                /\ n \notin RefreshNames(repos', FALSE, NULL)]_vars

\* C36: one call of rate_limited_query yields each result of the query at
\* most once, also when a throttling error ends a turn that has yielded
\* results and the query is run again.
C36_EachResultEmittedOnce ==
    \A i, j \in DOMAIN rl_out : i # j => rl_out[i].pos # rl_out[j].pos

====
